---- MODULE Spec2Model ----
(***************************************************************************)
(* Model of the simplified FatFs engine (middleware/fatfs/ff.c) on top of  *)
(* the disk I/O layer (middleware/fatfs/diskio.c).  Sectors are byte       *)
(* arrays, the FAT, the directory and the boot sector are encoded in bytes *)
(* exactly as the code encodes them.                                       *)
(***************************************************************************)
EXTENDS Integers, Sequences, FiniteSets, TLC

(* ------------------------------------------------------------------ *)
(* Program constants                                                    *)
(* ------------------------------------------------------------------ *)
FF_MAX_SS == 512
FF_VOLUMES == 1
SS == FF_MAX_SS
SZ_DIRE == 32
DDEM == 229
FS_FAT12 == 1
FS_FAT16 == 2
FS_FAT32 == 3

DIR_Name == 0
DIR_Attr == 11
DIR_FstClusHI == 20
DIR_WrtTime == 22
DIR_FstClusLO == 26
DIR_FileSize == 28

BPB_BytsPerSec == 11
BPB_SecPerClus == 13
BPB_RsvdSecCnt == 14
BPB_NumFATs == 16
BPB_RootEntCnt == 17
BPB_TotSec16 == 19
BPB_FATSz16 == 22
BPB_TotSec32 == 32
BS_BootSig == 38
BS_FilSysType == 54
BPB_FATSz32 == 36
BPB_RootClus32 == 44
BS_FilSysType32 == 82
MBR_Table == 446

FR_OK == 0
FR_DISK_ERR == 1
FR_INT_ERR == 2
FR_NOT_READY == 3
FR_NO_FILE == 4
FR_INVALID_NAME == 6
FR_DENIED == 7
FR_INVALID_OBJECT == 9
FR_INVALID_DRIVE == 11
FR_NOT_ENABLED == 12
FR_NO_FILESYSTEM == 13

FA_READ == 1
FA_WRITE == 2
FA_CREATE_NEW == 4
FA_CREATE_ALWAYS == 8
FA_OPEN_ALWAYS == 16
FA_MODIFIED == 64
AM_DIR == 16
AM_ARC == 32

RES_OK == 0
RES_ERROR == 1
RES_NOTRDY == 3
RES_PARERR == 4
STA_NOINIT == 1

(* the fixed time stamp returned by get_fattime: 2025-12-12 12:00:00 *)
get_fattime == (45 * 33554432) + (12 * 2097152) + (12 * 65536) + (12 * 2048)

(* ------------------------------------------------------------------ *)
(* Fixed-width arithmetic and the byte load/store macros                *)
(* ------------------------------------------------------------------ *)
(* A DWORD is held as a 32-bit two's-complement integer: 0xFFFFFFFF is -1, *)
(* sums and differences wrap as in C, and the unsigned order is ULt.       *)
M16(x) == x % 65536
M8(x) == x % 256
INVALID_SECT == 0 - 1
ULt(a, b) == IF (a < 0) = (b < 0) THEN a < b ELSE b < 0
UGe(a, b) == ~ULt(a, b)
ULe(a, b) == ~ULt(b, a)

(* bit b (a power of two) of x is set *)
BitSet(x, b) == (x \div b) % 2 = 1

LD_WORD(buf, o) == (buf[o + 1] * 256) + buf[o]
LD_DWORD(buf, o) ==
    ((IF buf[o + 3] >= 128 THEN buf[o + 3] - 256 ELSE buf[o + 3]) * 16777216)
    + (buf[o + 2] * 65536) + (buf[o + 1] * 256) + buf[o]
ST_WORD(buf, o, val) ==
    [buf EXCEPT ![o] = M8(val), ![o + 1] = M16(val) \div 256]
ST_DWORD(buf, o, val) ==
    [buf EXCEPT ![o] = M8(val),
                ![o + 1] = M16(val) \div 256,
                ![o + 2] = M8(val \div 65536),
                ![o + 3] = M8(val \div 16777216)]

ZeroSect == [i \in 0..(SS - 1) |-> 0]

(* ------------------------------------------------------------------ *)
(* State                                                                *)
(* ------------------------------------------------------------------ *)
VARIABLES
    fs,       \* the FATFS work area handed to f_mount
    FatFs,    \* FatFs[0]: 0 = NULL, 1 = address of fs
    Fsid,     \* mount id counter
    Stat,     \* disk status of diskio.c
    dev,      \* the card: sector number -> 512 bytes (absent = never written)
    fault,    \* -1: no fault armed; k >= 0: the (k+1)-th transfer from now fails
    fil,      \* the FIL objects
    dp,       \* the DIR object of the caller
    last,     \* record of the last filesystem call (observation only)
    mon,      \* per-handle observation of what was written through it
    step,     \* number of calls made so far
    sched,    \* the static state of scheduler.c
    slog      \* record of the last scheduler call (observation only)

vars == <<fs, FatFs, Fsid, Stat, dev, fault, fil, dp, last, mon, step, sched, slog>>

(* ------------------------------------------------------------------ *)
(* The card and diskio.c.  A call context K carries the work area, the *)
(* card, the armed fault and what the current call has issued so far.  *)
(* ------------------------------------------------------------------ *)
DevSect(d, s) == IF s \in DOMAIN d THEN d[s] ELSE ZeroSect

DevPut(d, s, bufs) ==
    [x \in (DOMAIN d) \cup {s + k : k \in 0..(Len(bufs) - 1)} |->
        IF x >= s /\ x < s + Len(bufs) THEN bufs[x - s + 1] ELSE d[x]]

(* Observation fields of K: n transfers issued by the call, nAfter those  *)
(* issued after a failed one, failed whether one failed, moved the bytes  *)
(* f_write has taken from its source buffer, lost whether the dirty mark  *)
(* of the window was removed without its content having been written,     *)
(* skew whether a whole-sector transfer to or from the caller's buffer was *)
(* issued with the file pointer off a sector boundary, clash whether one   *)
(* covered the sector that the window held modified.                       *)
MkK(f, d, flt, st) ==
    [fs |-> f, dev |-> d, fault |-> flt, Stat |-> st,
     n |-> 0, nAfter |-> 0, failed |-> FALSE, moved |-> 0, lost |-> FALSE,
     skew |-> FALSE, clash |-> FALSE, res |-> 0, val |-> 0]

(* one transfer issued to the card; ok tells whether the card performs it *)
Xfer(K) ==
    [K EXCEPT !.n = @ + 1,
              !.nAfter = IF K.failed THEN @ + 1 ELSE @,
              !.failed = @ \/ (K.fault = 0),
              !.fault = IF @ >= 0 THEN @ - 1 ELSE @]

(* the value of an expression evaluated once and bound to a name:      *)
(* The({ body : x \in {e} }) is body with x standing for the value of e *)
The(S) == CHOOSE v \in S : TRUE

disk_initialize(K, sd_ok) ==
    The({ [K EXCEPT !.Stat = st, !.val = st] :
          st \in {IF sd_ok THEN (K.Stat \div 2) * 2 ELSE STA_NOINIT} })

disk_read(K, sector, count) ==
    IF count = 0 THEN [K EXCEPT !.res = RES_PARERR]
    ELSE IF BitSet(K.Stat, STA_NOINIT) THEN [K EXCEPT !.res = RES_NOTRDY]
    ELSE IF K.fault = 0
    THEN [Xfer(K) EXCEPT !.res = RES_ERROR]
    ELSE [Xfer(K) EXCEPT !.res = RES_OK,
                         !.val = [k \in 1..count |-> DevSect(K.dev, sector + k - 1)]]

disk_write(K, bufs, sector, count) ==
    IF count = 0 THEN [K EXCEPT !.res = RES_PARERR]
    ELSE IF BitSet(K.Stat, STA_NOINIT) THEN [K EXCEPT !.res = RES_NOTRDY]
    ELSE IF K.fault = 0
    THEN [Xfer(K) EXCEPT !.res = RES_ERROR]
    ELSE [Xfer(K) EXCEPT !.res = RES_OK, !.dev = DevPut(K.dev, sector, bufs)]

(* ------------------------------------------------------------------ *)
(* Sector window                                                        *)
(* ------------------------------------------------------------------ *)
sync_window(K) ==
    IF K.fs.wflag # 0
    THEN The({ [K1 EXCEPT !.fs.wflag = 0,
                          !.lost = @ \/ (K1.res # RES_OK),
                          !.res = IF K1.res # RES_OK THEN FR_DISK_ERR ELSE FR_OK] :
               K1 \in {disk_write(K, <<K.fs.win>>, K.fs.winsect, 1)} })
    ELSE [K EXCEPT !.res = FR_OK]

(* the read of move_window, after the window has been flushed *)
LoadWindow(K, sect) ==
    The({ IF K2.res # RES_OK
          THEN [K2 EXCEPT !.fs.winsect = INVALID_SECT, !.res = FR_DISK_ERR]
          ELSE [K2 EXCEPT !.fs.win = K2.val[1], !.fs.winsect = sect, !.res = FR_OK] :
          K2 \in {disk_read(K, sect, 1)} })

move_window(K, sect) ==
    IF sect # K.fs.winsect
    THEN The({ IF K1.res = FR_OK THEN LoadWindow(K1, sect) ELSE K1 :
               K1 \in {sync_window(K)} })
    ELSE [K EXCEPT !.res = FR_OK]

(* ------------------------------------------------------------------ *)
(* FAT access and cluster mapping                                       *)
(* ------------------------------------------------------------------ *)
(* a 12-bit entry read that takes the low 12 bits for every cluster *)
GetFat12NoShift(K, clst, bc) ==
    The({ IF K1.res # FR_OK THEN [K1 EXCEPT !.val = 1]
          ELSE The({ IF K2.res # FR_OK THEN [K2 EXCEPT !.val = 1]
                     ELSE [K2 EXCEPT !.val = (K1.fs.win[bc % SS]
                                              + (K2.fs.win[(bc + 1) % SS] * 256)) % 4096] :
                     K2 \in {move_window(K1, K.fs.fatbase + ((bc + 1) \div SS))} }) :
          K1 \in {move_window(K, K.fs.fatbase + (bc \div SS))} })

(* the 12-bit entry read: low byte, then high byte after a window move *)
GetFat12(K, clst, bc) ==
    The({ IF K1.res # FR_OK THEN [K1 EXCEPT !.val = 1]
          ELSE The({ IF K2.res # FR_OK THEN [K2 EXCEPT !.val = 1]
                     ELSE The({ [K2 EXCEPT !.val = IF clst % 2 = 1 THEN wc \div 16
                                                   ELSE wc % 4096] :
                                wc \in {K1.fs.win[bc % SS]
                                        + (K2.fs.win[(bc + 1) % SS] * 256)} }) :
                     K2 \in {move_window(K1, K.fs.fatbase + ((bc + 1) \div SS))} }) :
          K1 \in {move_window(K, K.fs.fatbase + (bc \div SS))} })

get_fat(K, clst) ==
    IF ULt(clst, 2) \/ UGe(clst, K.fs.n_fatent) THEN [K EXCEPT !.val = 1]
    ELSE IF K.fs.fs_type = FS_FAT12 THEN GetFat12(K, clst, clst + (clst \div 2))
    ELSE IF K.fs.fs_type = FS_FAT16 THEN
        The({ IF K1.res # FR_OK THEN [K1 EXCEPT !.val = 1]
              ELSE [K1 EXCEPT !.val = LD_WORD(K1.fs.win, (clst * 2) % SS)] :
              K1 \in {move_window(K, K.fs.fatbase + (clst \div (SS \div 2)))} })
    ELSE IF K.fs.fs_type = FS_FAT32 THEN
        The({ IF K1.res # FR_OK THEN [K1 EXCEPT !.val = 1]
              ELSE [K1 EXCEPT !.val = LD_DWORD(K1.fs.win, (clst * 4) % SS) % 268435456] :
              K1 \in {move_window(K, K.fs.fatbase + (clst \div (SS \div 4)))} })
    ELSE [K EXCEPT !.val = 1]

(* a 12-bit entry update that overwrites the whole shared byte *)
PutFat12Clobber(K, clst, val, bc) ==
    The({ IF K1.res # FR_OK THEN K1
          ELSE The({ IF K3.res # FR_OK THEN K3
                     ELSE [K3 EXCEPT
                             !.fs.win[(bc + 1) % SS] =
                                 IF clst % 2 = 1 THEN M8(val \div 16)
                                 ELSE M8(val \div 256) % 16,
                             !.fs.wflag = 1] :
                     K3 \in {move_window(
                                [K1 EXCEPT !.fs.win[bc % SS] =
                                               IF clst % 2 = 1
                                               THEN M8(M8(val) * 16)
                                               ELSE M8(val),
                                           !.fs.wflag = 1],
                                K.fs.fatbase + ((bc + 1) \div SS))} }) :
          K1 \in {move_window(K, K.fs.fatbase + (bc \div SS))} })

(* the 12-bit entry update: first byte, window move, second byte *)
PutFat12(K, clst, val, bc) ==
    The({ IF K1.res # FR_OK THEN K1
          ELSE The({ IF K3.res # FR_OK THEN K3
                     ELSE [K3 EXCEPT
                             !.fs.win[(bc + 1) % SS] =
                                 IF clst % 2 = 1 THEN M8(val \div 16)
                                 ELSE (@ - (@ % 16)) + (M8(val \div 256) % 16),
                             !.fs.wflag = 1] :
                     K3 \in {move_window(
                                [K1 EXCEPT !.fs.win[bc % SS] =
                                               IF clst % 2 = 1
                                               THEN (@ % 16) + M8(M8(val) * 16)
                                               ELSE M8(val),
                                           !.fs.wflag = 1],
                                K.fs.fatbase + ((bc + 1) \div SS))} }) :
          K1 \in {move_window(K, K.fs.fatbase + (bc \div SS))} })

put_fat(K, clst, val) ==
    IF ~(UGe(clst, 2) /\ ULt(clst, K.fs.n_fatent)) THEN [K EXCEPT !.res = FR_INT_ERR]
    ELSE IF K.fs.fs_type = FS_FAT12 THEN PutFat12(K, clst, val, clst + (clst \div 2))
    ELSE IF K.fs.fs_type = FS_FAT16 THEN
        The({ IF K1.res # FR_OK THEN K1
              ELSE [K1 EXCEPT !.fs.win = ST_WORD(@, (clst * 2) % SS, M16(val)),
                              !.fs.wflag = 1] :
              K1 \in {move_window(K, K.fs.fatbase + (clst \div (SS \div 2)))} })
    ELSE IF K.fs.fs_type = FS_FAT32 THEN
        The({ IF K1.res # FR_OK THEN K1
              ELSE The({ [K1 EXCEPT
                            !.fs.win = ST_DWORD(@, (clst * 4) % SS,
                                           (val % 268435456) + (old - (old % 268435456))),
                            !.fs.wflag = 1] :
                         old \in {LD_DWORD(K1.fs.win, (clst * 4) % SS)} }) :
              K1 \in {move_window(K, K.fs.fatbase + (clst \div (SS \div 4)))} })
    ELSE [K EXCEPT !.res = FR_INT_ERR]

(* a cluster mapping that forgets the cluster size *)
clst2sectNoScale(f, clst) ==
    LET c == clst - 2
    IN  IF UGe(c, f.n_fatent - 2) THEN 0
        ELSE f.database + c

clst2sect(f, clst) ==
    LET c == clst - 2
    IN  IF UGe(c, f.n_fatent - 2) THEN 0
        ELSE f.database + (f.csize * c)

(* ------------------------------------------------------------------ *)
(* Volume mount                                                         *)
(* ------------------------------------------------------------------ *)
check_fs(K, sect) ==
    The({ IF K1.res # FR_OK THEN [K1 EXCEPT !.res = FR_DISK_ERR]
          ELSE IF LD_WORD(K1.fs.win, BS_BootSig - 2) # 43605
               THEN [K1 EXCEPT !.res = FR_NO_FILESYSTEM]
          ELSE IF LD_DWORD(K1.fs.win, BS_FilSysType) % 16777216 = 5521734
               THEN [K1 EXCEPT !.res = FR_OK]
          ELSE IF LD_DWORD(K1.fs.win, BS_FilSysType32) % 16777216 = 5521734
               THEN [K1 EXCEPT !.res = FR_OK]
          ELSE [K1 EXCEPT !.res = FR_NO_FILESYSTEM] :
          K1 \in {move_window([K EXCEPT !.fs.wflag = 0, !.fs.winsect = INVALID_SECT,
                                         !.lost = @ \/ (K.fs.wflag # 0)],
                              sect)} })

IsFatPartType(t) == t \in {11, 12, 6, 4, 1}

(* find_volume(fs, 0): the start sector of the partition to try, 0 if none *)
find_volume(win) ==
    IF win[MBR_Table + 4] # 0
    THEN LET hits == {i \in 0..3 : IsFatPartType(win[MBR_Table + (i * 16) + 4])}
         IN  IF hits = {} THEN 0
             ELSE LET i == CHOOSE x \in hits : \A y \in hits : x <= y
                  IN  LD_DWORD(win, MBR_Table + (i * 16) + 8)
    ELSE 0

(* the fields f_mount reads from the parameter block in the window *)
ReadBPB(w) ==
    [bps |-> LD_WORD(w, BPB_BytsPerSec),
     fsz16 |-> LD_WORD(w, BPB_FATSz16), fsz32 |-> LD_DWORD(w, BPB_FATSz32),
     nfats |-> w[BPB_NumFATs], csize |-> w[BPB_SecPerClus],
     nroot |-> LD_WORD(w, BPB_RootEntCnt),
     ts16 |-> LD_WORD(w, BPB_TotSec16), ts32 |-> LD_DWORD(w, BPB_TotSec32),
     nrsv |-> LD_WORD(w, BPB_RsvdSecCnt), rootclus |-> LD_DWORD(w, BPB_RootClus32)]

(* the layout f_mount computes from them *)
Layout(b, bsect) ==
    The({ The({ [fsz |-> fsz, tsect |-> tsect, rsect |-> rsect,
                 sysect |-> b.nrsv + (fsz * b.nfats) + rsect,
                 fatbase |-> bsect + b.nrsv, farone |-> fsz * b.nfats] :
                rsect \in {b.nroot \div (SS \div SZ_DIRE)} }) :
          fsz \in {IF b.fsz16 = 0 THEN b.fsz32 ELSE b.fsz16},
          tsect \in {IF b.ts16 = 0 THEN b.ts32 ELSE b.ts16} })

(* a classification that excludes the limit values themselves *)
FatTypeStrict(nclst) ==
    IF ULt(nclst, 4085) THEN FS_FAT12
    ELSE IF ULt(nclst, 65525) THEN FS_FAT16 ELSE FS_FAT32

FatType(nclst) ==
    IF ULe(nclst, 4085) THEN FS_FAT12
    ELSE IF ULe(nclst, 65525) THEN FS_FAT16 ELSE FS_FAT32

(* the part of f_mount that parses the parameter block: b the fields, *)
(* y the layout                                                        *)
ParseBPB(K, bsect, fsid, b, y) ==
    IF b.bps # SS
    THEN [K |-> [K EXCEPT !.res = FR_NO_FILESYSTEM], Fsid |-> fsid]
    ELSE IF b.nfats # 1 /\ b.nfats # 2
    THEN [K |-> [K EXCEPT !.fs.fsize = y.fsz, !.fs.n_fats = b.nfats,
                          !.res = FR_NO_FILESYSTEM], Fsid |-> fsid]
    ELSE IF b.csize = 0 \/ ~(\E e \in 0..7 : b.csize = 2 ^ e)
    THEN [K |-> [K EXCEPT !.fs.fsize = y.fsz, !.fs.n_fats = b.nfats,
                          !.fs.csize = b.csize, !.res = FR_NO_FILESYSTEM],
          Fsid |-> fsid]
    ELSE IF \/ b.nroot % (SS \div SZ_DIRE) # 0
            \/ b.nrsv = 0
            \/ ULt(y.tsect, y.sysect)
            \/ (y.tsect - y.sysect) \div b.csize = 0
    THEN [K |-> [K EXCEPT !.fs.fsize = y.fsz, !.fs.n_fats = b.nfats,
                          !.fs.csize = b.csize, !.fs.n_rootdir = b.nroot,
                          !.res = FR_NO_FILESYSTEM],
          Fsid |-> fsid]
    ELSE The({ [K |-> [K EXCEPT
                   !.fs.fsize = y.fsz, !.fs.n_fats = b.nfats,
                   !.fs.csize = b.csize, !.fs.n_rootdir = b.nroot,
                   !.fs.fs_type = FatType(nclst),
                   !.fs.n_fatent = nclst + 2,
                   !.fs.volbase = bsect,
                   !.fs.fatbase = y.fatbase,
                   !.fs.dirbase = IF FatType(nclst) = FS_FAT32 THEN b.rootclus
                                  ELSE y.fatbase + y.farone,
                   !.fs.database = y.fatbase + y.farone + y.rsect,
                   !.fs.last_clst = 0 - 1,
                   !.fs.free_clst = 0 - 1,
                   !.fs.id = M16(fsid + 1),
                   !.fs.wflag = 0,
                   !.res = FR_OK],
                Fsid |-> M16(fsid + 1)] :
               nclst \in {(y.tsect - y.sysect) \div b.csize} })

(* f_mount from the parameter block in the window on *)
MountVolume(K, bsect, fsid) ==
    The({ ParseBPB(K, bsect, fsid, b, Layout(b, bsect)) : b \in {ReadBPB(K.fs.win)} })

(* f_mount when sector 0 is not a boot sector: look for a partition *)
MountPartition(K, fsid) ==
    The({ IF K3.res # RES_OK
          THEN [K |-> [K3 EXCEPT !.res = FR_DISK_ERR], Fsid |-> fsid]
          ELSE The({ IF bsect = 0
                     THEN [K |-> [K3 EXCEPT !.fs.win = K3.val[1],
                                            !.res = FR_NO_FILESYSTEM],
                           Fsid |-> fsid]
                     ELSE The({ IF K5.res # FR_OK THEN [K |-> K5, Fsid |-> fsid]
                                ELSE MountVolume(K5, bsect, fsid) :
                                K5 \in {check_fs([K3 EXCEPT !.fs.win = K3.val[1]],
                                                 bsect)} }) :
                     bsect \in {find_volume(K3.val[1])} }) :
          K3 \in {disk_read(K, 0, 1)} })

(* a mount that goes on to read the card whatever its initialisation said *)
MountNowNoInitCheck(K, fsid, sd_ok) ==
    The({ The({ IF K2.res = FR_NO_FILESYSTEM THEN MountPartition(K2, fsid)
                ELSE IF K2.res # FR_OK THEN [K |-> K2, Fsid |-> fsid]
                ELSE MountVolume(K2, 0, fsid) :
                K2 \in {check_fs(K1, 0)} }) :
          K1 \in {disk_initialize(K, sd_ok)} })

(* f_mount with opt = 1 on a registered work area *)
MountNow(K, fsid, sd_ok) ==
    The({ IF BitSet(K1.val, STA_NOINIT)
          THEN [K |-> [K1 EXCEPT !.res = FR_NOT_READY], Fsid |-> fsid]
          ELSE The({ IF K2.res = FR_NO_FILESYSTEM THEN MountPartition(K2, fsid)
                     ELSE IF K2.res # FR_OK THEN [K |-> K2, Fsid |-> fsid]
                     ELSE MountVolume(K2, 0, fsid) :
                     K2 \in {check_fs(K1, 0)} }) :
          K1 \in {disk_initialize(K, sd_ok)} })

(* a mount that leaves the type of the work area as it was *)
f_mountKeepType(K, reg, fsid, fsnn, vol, opt, sd_ok) ==
    IF vol < 0 \/ vol >= FF_VOLUMES
    THEN [K |-> [K EXCEPT !.res = FR_INVALID_DRIVE], FatFs |-> reg, Fsid |-> fsid]
    ELSE The({ IF opt = 0
               THEN [K |-> [K EXCEPT !.res = FR_OK], FatFs |-> reg1, Fsid |-> fsid]
               ELSE IF ~fsnn
               THEN [K |-> [K EXCEPT !.res = FR_INVALID_OBJECT], FatFs |-> reg1,
                     Fsid |-> fsid]
               ELSE The({ [K |-> R.K, FatFs |-> reg1, Fsid |-> R.Fsid] :
                          R \in {MountNow(K, fsid, sd_ok)} }) :
               reg1 \in {IF fsnn THEN 1 ELSE 0} })

(* f_mount(fs, path, opt); fsnn tells whether the fs argument is non-NULL, *)
(* sd_ok is the outcome of the card initialisation.                        *)
f_mount(K, reg, fsid, fsnn, vol, opt, sd_ok) ==
    IF vol < 0 \/ vol >= FF_VOLUMES
    THEN [K |-> [K EXCEPT !.res = FR_INVALID_DRIVE], FatFs |-> reg, Fsid |-> fsid]
    ELSE The({ IF opt = 0
               THEN [K |-> [K0 EXCEPT !.res = FR_OK], FatFs |-> reg1, Fsid |-> fsid]
               ELSE IF ~fsnn
               THEN [K |-> [K0 EXCEPT !.res = FR_INVALID_OBJECT], FatFs |-> reg1,
                     Fsid |-> fsid]
               ELSE The({ [K |-> R.K, FatFs |-> reg1, Fsid |-> R.Fsid] :
                          R \in {MountNow(K0, fsid, sd_ok)} }) :
               K0 \in {IF reg # 0 \/ fsnn THEN [K EXCEPT !.fs.fs_type = 0] ELSE K},
               reg1 \in {IF fsnn THEN 1 ELSE 0} })

(* ------------------------------------------------------------------ *)
(* File objects                                                         *)
(* ------------------------------------------------------------------ *)
NullFil ==
    [fs |-> 0, id |-> 0, flag |-> 0, err |-> 0, fptr |-> 0, clust |-> 0,
     dir_sect |-> 0, dir_ptr |-> 0, obj_size |-> 0, sclust |-> 0]

(* character j of a NUL-terminated string given as a sequence of codes *)
Ch(p, j) == IF j < Len(p) THEN p[j + 1] ELSE 0
(* a character conversion that keeps the case *)
UpNone(c) == c

Up(c) == IF c >= 97 /\ c <= 122 THEN c - 32 ELSE c

(* the 11-byte name f_open builds from the path that follows the drive prefix *)
MkSfn(p) ==
    LET stop(j) == Ch(p, j) = 0 \/ Ch(p, j) = 46
        jb == CHOOSE j \in 0..8 :
                 /\ (stop(j) \/ j = 8)
                 /\ \A i \in 0..(j - 1) : ~stop(i)
        hasExt == Ch(p, jb) = 46
    IN  [k \in 0..10 |->
            IF k < jb THEN Up(Ch(p, k))
            ELSE IF k < 8 THEN 32
            ELSE IF hasExt /\ (\A m \in 0..(k - 8) : Ch(p, jb + 1 + m) # 0)
                 THEN Up(Ch(p, jb + 1 + (k - 8)))
            ELSE 32]

RootSect(f) == IF f.fs_type = FS_FAT32 THEN clst2sect(f, f.dirbase) ELSE f.dirbase
InRoot(f, i) == i < f.n_rootdir \/ (f.fs_type = FS_FAT32 /\ i < 512)
DirPerSect == SS \div SZ_DIRE

(* entry i of the root directory: the sector it lies in, given the sector *)
(* of the entry before it, and its offset in that sector                  *)
EntSect(i, sect) == IF i > 0 /\ i % DirPerSect = 0 THEN sect + 1 ELSE sect
EntOff(i) == (i % DirPerSect) * SZ_DIRE

(* the directory loops below visit the slots in index order; the slots of *)
(* one sector are examined in the same window, so each loop is written as *)
(* one step per sector: LastInSect is the last slot of the sector of i    *)
(* that the loop condition admits, FirstSlot the first slot of a set      *)
LastInSect(f, i) ==
    CHOOSE j \in i..(i - (i % DirPerSect) + (DirPerSect - 1)) :
        /\ InRoot(f, j)
        /\ j = i - (i % DirPerSect) + (DirPerSect - 1) \/ ~InRoot(f, j + 1)
FirstSlot(S) == CHOOSE j \in S : \A k \in S : j <= k

(* the lookup loop of f_open *)
RECURSIVE LookupScan(_, _, _, _)
LookupScan(K, i, sect, sfn) ==
    IF ~InRoot(K.fs, i) THEN [K |-> K, st |-> "miss", sect |-> sect, off |-> 0]
    ELSE
    The({ IF K1.res # FR_OK
          THEN [K |-> K1, st |-> "err", sect |-> EntSect(i, sect), off |-> 0]
          ELSE
          The({ IF stops = {}
                THEN LookupScan(K1, LastInSect(K.fs, i) + 1, EntSect(i, sect), sfn)
                ELSE IF K1.fs.win[EntOff(FirstSlot(stops)) + DIR_Name] = 0
                THEN [K |-> K1, st |-> "miss", sect |-> EntSect(i, sect),
                      off |-> EntOff(FirstSlot(stops))]
                ELSE [K |-> K1, st |-> "found", sect |-> EntSect(i, sect),
                      off |-> EntOff(FirstSlot(stops))] :
                stops \in {{ j \in i..LastInSect(K.fs, i) :
                               \/ K1.fs.win[EntOff(j) + DIR_Name] = 0
                               \/ ~(\/ K1.fs.win[EntOff(j) + DIR_Name] = DDEM
                                    \/ BitSet(K1.fs.win[EntOff(j) + DIR_Attr], AM_DIR)
                                    \/ \E k \in 0..10 :
                                          K1.fs.win[EntOff(j) + k] # sfn[k]) }} }) :
          K1 \in {IF EntSect(i, sect) # sect THEN move_window(K, EntSect(i, sect))
                  ELSE [K EXCEPT !.res = FR_OK]} })

(* the free-slot loop of f_open *)
RECURSIVE CreateScan(_, _, _)
CreateScan(K, i, sect) ==
    IF ~InRoot(K.fs, i) THEN [K |-> K, st |-> "full", sect |-> sect, off |-> 0]
    ELSE
    The({ IF K1.res # FR_OK
          THEN [K |-> K1, st |-> "err", sect |-> EntSect(i, sect), off |-> 0]
          ELSE
          The({ IF stops = {}
                THEN CreateScan(K1, LastInSect(K.fs, i) + 1, EntSect(i, sect))
                ELSE [K |-> K1, st |-> "slot", sect |-> EntSect(i, sect),
                      off |-> EntOff(FirstSlot(stops))] :
                stops \in {{ j \in i..LastInSect(K.fs, i) :
                               \/ K1.fs.win[EntOff(j) + DIR_Name] = 0
                               \/ K1.fs.win[EntOff(j) + DIR_Name] = DDEM }} }) :
          K1 \in {IF EntSect(i, sect) # sect THEN move_window(K, EntSect(i, sect))
                  ELSE [K EXCEPT !.res = FR_OK]} })

(* the 32 bytes of a fresh directory entry *)
NewDirEntry(win, off, sfn) ==
    LET w0 == [x \in 0..(SS - 1) |->
                 IF x >= off /\ x < off + 11 THEN sfn[x - off]
                 ELSE IF x >= off /\ x < off + SZ_DIRE THEN 0
                 ELSE win[x]]
        w1 == [w0 EXCEPT ![off + DIR_Attr] = AM_ARC]
        w2 == ST_DWORD(w1, off + DIR_WrtTime, get_fattime)
        w3 == ST_WORD(w2, off + DIR_FstClusLO, 0)
        w4 == ST_WORD(w3, off + DIR_FstClusHI, 0)
    IN  ST_DWORD(w4, off + DIR_FileSize, 0)

(* the file object f_open fills in for the entry at (sect, off) *)
OpenedFil(fp, id, mode, size, sc, sect, off) ==
    [fp EXCEPT !.fs = 1, !.id = id, !.flag = mode, !.err = 0, !.fptr = 0,
               !.obj_size = size, !.sclust = sc, !.clust = sc,
               !.dir_sect = sect, !.dir_ptr = off]

(* the creation branch of f_open: find a slot, fill it, write it out *)
OpenCreate(K, fp, mode, sfn) ==
    The({ IF K2.res # FR_OK THEN [K |-> K2, fp |-> fp, res |-> K2.res, how |-> "none"]
          ELSE
          The({ IF C.st = "err"
                THEN [K |-> C.K, fp |-> fp, res |-> C.K.res, how |-> "none"]
                ELSE IF C.st = "full"
                THEN [K |-> C.K, fp |-> fp, res |-> FR_DENIED, how |-> "none"]
                ELSE
                The({ IF K4.res # FR_OK
                      THEN [K |-> K4, fp |-> fp, res |-> K4.res, how |-> "none"]
                      ELSE [K |-> K4,
                            fp |-> OpenedFil(fp, K.fs.id, mode, 0, 0, C.sect, C.off),
                            res |-> FR_OK, how |-> "created"] :
                      K4 \in {sync_window([C.K EXCEPT
                                  !.fs.win = NewDirEntry(@, C.off, sfn),
                                  !.fs.wflag = 1])} }) :
                C \in {CreateScan(K2, 0, RootSect(K.fs))} }) :
          K2 \in {move_window(K, RootSect(K.fs))} })

(* f_open once the volume is known to be mounted *)
OpenLookup(K, fp, mode, sfn) ==
    The({ IF K1.res # FR_OK THEN [K |-> K1, fp |-> fp, res |-> K1.res, how |-> "none"]
          ELSE
          The({ IF L.st = "err"
                THEN [K |-> L.K, fp |-> fp, res |-> L.K.res, how |-> "none"]
                ELSE IF L.st = "found"
                THEN [K |-> L.K,
                      fp |-> OpenedFil(fp, K.fs.id, mode,
                                 LD_DWORD(L.K.fs.win, L.off + DIR_FileSize),
                                 (LD_WORD(L.K.fs.win, L.off + DIR_FstClusHI) * 65536)
                                 + LD_WORD(L.K.fs.win, L.off + DIR_FstClusLO),
                                 L.sect, L.off),
                      res |-> FR_OK, how |-> "found"]
                ELSE IF BitSet(mode, FA_CREATE_ALWAYS) \/ BitSet(mode, FA_CREATE_NEW)
                        \/ BitSet(mode, FA_OPEN_ALWAYS)
                THEN OpenCreate(L.K, fp, mode, sfn)
                ELSE [K |-> L.K, fp |-> fp, res |-> FR_NO_FILE, how |-> "none"] :
                L \in {LookupScan(K1, 0, RootSect(K.fs), sfn)} }) :
          K1 \in {move_window(K, RootSect(K.fs))} })

(* f_open(fp, path, mode): path is the whole path, drive prefix included *)
f_open(K, reg, fp, path, mode) ==
    IF Ch(path, 0) - 48 < 0 \/ Ch(path, 0) - 48 >= FF_VOLUMES
    THEN [K |-> K, fp |-> [fp EXCEPT !.fs = 0], res |-> FR_INVALID_DRIVE, how |-> "none"]
    ELSE IF Ch(path, 1) # 58
    THEN [K |-> K, fp |-> [fp EXCEPT !.fs = 0], res |-> FR_INVALID_NAME, how |-> "none"]
    ELSE IF reg = 0 \/ K.fs.fs_type = 0
    THEN [K |-> K, fp |-> [fp EXCEPT !.fs = 0], res |-> FR_NOT_ENABLED, how |-> "none"]
    ELSE The({ OpenLookup(K, [fp EXCEPT !.fs = 0], mode, sfn) :
               sfn \in {MkSfn(SubSeq(path,
                                     IF Ch(path, 2) = 47 \/ Ch(path, 2) = 92 THEN 4 ELSE 3,
                                     Len(path)))} })

(* a directory write-back that leaves the size field as it was *)
DirWriteBackNoSize(win, fp) ==
    LET d == fp.dir_ptr
        a == win[d + DIR_Attr]
        w1 == [win EXCEPT ![d + DIR_Attr] = IF BitSet(a, AM_ARC) THEN a ELSE a + AM_ARC]
        w3 == ST_WORD(w1, d + DIR_FstClusLO, fp.sclust)
        w4 == ST_WORD(w3, d + DIR_FstClusHI, fp.sclust \div 65536)
    IN  ST_DWORD(w4, d + DIR_WrtTime, get_fattime)

(* the update of the directory entry in the window by f_sync *)
DirWriteBack(win, fp) ==
    LET d == fp.dir_ptr
        a == win[d + DIR_Attr]
        w1 == [win EXCEPT ![d + DIR_Attr] = IF BitSet(a, AM_ARC) THEN a ELSE a + AM_ARC]
        w2 == ST_DWORD(w1, d + DIR_FileSize, fp.obj_size)
        w3 == ST_WORD(w2, d + DIR_FstClusLO, fp.sclust)
        w4 == ST_WORD(w3, d + DIR_FstClusHI, fp.sclust \div 65536)
    IN  ST_DWORD(w4, d + DIR_WrtTime, get_fattime)

f_sync(K, fp) ==
    IF fp.fs = 0 THEN [K |-> K, fp |-> fp, res |-> FR_INVALID_OBJECT]
    ELSE IF BitSet(fp.flag, FA_MODIFIED)
    THEN The({ IF K1.res # FR_OK THEN [K |-> K1, fp |-> fp, res |-> K1.res]
               ELSE The({ [K |-> K3, fp |-> [fp EXCEPT !.flag = @ - FA_MODIFIED],
                           res |-> K3.res] :
                          K3 \in {sync_window([K1 EXCEPT
                                      !.fs.win = DirWriteBack(@, fp),
                                      !.fs.wflag = 1])} }) :
               K1 \in {move_window(K, fp.dir_sect)} })
    ELSE The({ [K |-> K1, fp |-> fp, res |-> K1.res] : K1 \in {sync_window(K)} })

(* a close that detaches the handle only when the write-back succeeded *)
f_closeKeepOnError(K, fp) ==
    IF fp.fs = 0 THEN [K |-> K, fp |-> fp, res |-> FR_INVALID_OBJECT]
    ELSE The({ [K |-> R.K, fp |-> IF R.res = FR_OK THEN [R.fp EXCEPT !.fs = 0] ELSE R.fp,
                res |-> R.res] :
               R \in {f_sync(K, fp)} })

f_close(K, fp) ==
    IF fp.fs = 0 THEN [K |-> K, fp |-> fp, res |-> FR_INVALID_OBJECT]
    ELSE The({ [K |-> R.K, fp |-> [R.fp EXCEPT !.fs = 0], res |-> R.res] :
               R \in {f_sync(K, fp)} })

(* ------------------------------------------------------------------ *)
(* Read, write and seek                                                 *)
(* ------------------------------------------------------------------ *)
RECURSIVE BitAnd(_, _)
BitAnd(a, b) ==
    IF a = 0 \/ b = 0 THEN 0
    ELSE ((a % 2) * (b % 2)) + (2 * BitAnd(a \div 2, b \div 2))

(* what a read, write or seek call hands back *)
Ret(K, fp, r, cnt, data, hung) ==
    [K |-> K, fp |-> fp, res |-> r, cnt |-> cnt, data |-> data, hung |-> hung]

(* an ABORT that reports no byte of the request as transferred *)
AbortNoCount(K, fp, r, cnt, data) == Ret(K, [fp EXCEPT !.err = M8(r)], r, 0, data, FALSE)

(* ABORT(fs, res): latch the error in the file object and return it *)
Abort(K, fp, r, cnt, data) == Ret(K, [fp EXCEPT !.err = M8(r)], r, cnt, data, FALSE)

(* byte j of the caller's source buffer of a write call *)
WBuf(seed, j) == (seed + j) % 256

MIN(a, b) == IF a < b THEN a ELSE b

(* sector index in the cluster, and sector, of the file pointer *)
CSect(f, fp) == (fp.fptr \div SS) % f.csize
CurSect(f, fp) == clst2sect(f, fp.clust) + CSect(f, fp)

(* number of whole sectors one iteration transfers directly *)
DirectCount(f, fp, bt) ==
    IF CSect(f, fp) + (bt \div SS) > f.csize THEN f.csize - CSect(f, fp) ELSE bt \div SS

(* observation of a transfer of cc whole sectors at the file pointer *)
Bulk(K, fp, cc) ==
    [K EXCEPT !.skew = @ \/ fp.fptr % SS # 0,
              !.clash = @ \/ (/\ K.fs.wflag # 0
                              /\ K.fs.winsect >= CurSect(K.fs, fp)
                              /\ K.fs.winsect < CurSect(K.fs, fp) + cc)]

RECURSIVE ReadLoop(_, _, _, _, _)

(* the whole-sector transfer of one iteration of the read loop *)
ReadDirect(K, fp, btr, br, data, cc) ==
    The({ IF Kr.res # RES_OK THEN Abort(Kr, fp, FR_DISK_ERR, br, data)
          ELSE The({ ReadLoop(Kr, [fp EXCEPT !.fptr = @ + rcnt], btr - rcnt, br + rcnt,
                              data \o [j \in 1..rcnt |->
                                         Kr.val[((j - 1) \div SS) + 1][(j - 1) % SS]]) :
                     rcnt \in {MIN(cc * SS, fp.obj_size - fp.fptr)} }) :
          Kr \in {disk_read(Bulk(K, fp, cc), CurSect(K.fs, fp), cc)} })

(* the transfer through the window of one iteration of the read loop *)
ReadPartial(K, fp, btr, br, data) ==
    The({ IF Kw.res # FR_OK THEN Abort(Kw, fp, Kw.res, br, data)
          ELSE The({ ReadLoop(Kw, [fp EXCEPT !.fptr = @ + rcnt], btr - rcnt, br + rcnt,
                              data \o [j \in 1..rcnt |->
                                         Kw.fs.win[(fp.fptr % SS) + j - 1]]) :
                     rcnt \in {MIN(MIN(SS - (fp.fptr % SS), btr),
                                   fp.obj_size - fp.fptr)} }) :
          Kw \in {move_window(K, CurSect(K.fs, fp))} })

(* one iteration of the read loop once fp.clust is set *)
ReadChunk(K, fp, btr, br, data) ==
    IF clst2sect(K.fs, fp.clust) = 0 THEN Abort(K, fp, FR_INT_ERR, br, data)
    ELSE IF btr \div SS > 0
    THEN ReadDirect(K, fp, btr, br, data, DirectCount(K.fs, fp, btr))
    ELSE ReadPartial(K, fp, btr, br, data)

ReadLoop(K, fp, btr, br, data) ==
    IF btr = 0 \/ fp.fptr >= fp.obj_size THEN Ret(K, fp, FR_OK, br, data, FALSE)
    ELSE IF fp.fptr = 0 THEN ReadChunk(K, [fp EXCEPT !.clust = fp.sclust], btr, br, data)
    ELSE IF fp.fptr % (K.fs.csize * SS) = 0
    THEN The({ IF ULt(Kg.val, 2) \/ UGe(Kg.val, Kg.fs.n_fatent)
               THEN Abort(Kg, fp, FR_INT_ERR, br, data)
               ELSE ReadChunk(Kg, [fp EXCEPT !.clust = Kg.val], btr, br, data) :
               Kg \in {get_fat(K, fp.clust)} })
    ELSE ReadChunk(K, fp, btr, br, data)

f_read(K, fp, btr) ==
    IF fp.fs = 0 THEN Ret(K, fp, FR_INVALID_OBJECT, 0, <<>>, FALSE)
    ELSE IF fp.err # 0 THEN Ret(K, fp, FR_INT_ERR, 0, <<>>, FALSE)
    ELSE IF ~BitSet(fp.flag, FA_READ) THEN Ret(K, fp, FR_DENIED, 0, <<>>, FALSE)
    ELSE ReadLoop(K, fp, btr, 0, <<>>)

(* a scan that takes the cluster it starts at, whatever its entry *)
FreeScanFirst(K, clst, scl, fuel) ==
    IF UGe(clst, K.fs.n_fatent) /\ scl = 2 THEN [K |-> K, st |-> "denied", clst |-> 2]
    ELSE [K |-> K, st |-> "found", clst |-> IF UGe(clst, K.fs.n_fatent) THEN 2 ELSE clst]

(* the do-while scan for a free cluster of f_write, started at clst with   *)
(* wrap mark scl; fuel bounds the iterations examined before the scan is   *)
(* known to repeat for ever                                                *)
RECURSIVE FreeScan(_, _, _, _)
FreeScan(K, clst, scl, fuel) ==
    IF UGe(clst, K.fs.n_fatent) /\ scl = 2 THEN [K |-> K, st |-> "denied", clst |-> 2]
    ELSE IF fuel = 0 THEN [K |-> K, st |-> "hang", clst |-> clst]
    ELSE The({ The({ IF Kg.val = 0 THEN [K |-> Kg, st |-> "found", clst |-> c]
                     ELSE FreeScan(Kg, c + 1, scl, fuel - 1) :
                     Kg \in {get_fat(K, c)} }) :
               c \in {IF UGe(clst, K.fs.n_fatent) THEN 2 ELSE clst} })

ScanFuel(f) == (3 * f.n_fatent) + 3

(* the file pointer and size after n bytes have been written *)
Advance(fp, n) ==
    [fp EXCEPT !.fptr = @ + n, !.obj_size = IF fp.fptr + n > @ THEN fp.fptr + n ELSE @]

RECURSIVE WriteLoop(_, _, _, _, _)

(* the whole-sector transfer of one iteration of the write loop *)
WriteDirect(K, fp, btw, bw, seed, cc) ==
    The({ IF Kd.res # RES_OK THEN Abort(Kd, fp, FR_DISK_ERR, bw, <<>>)
          ELSE WriteLoop([Kd EXCEPT !.moved = @ + (cc * SS)], Advance(fp, cc * SS),
                         btw - (cc * SS), bw + (cc * SS), seed) :
          Kd \in {disk_write(Bulk(K, fp, cc),
                             [k \in 1..cc |->
                                 [i \in 0..(SS - 1) |->
                                     WBuf(seed, bw + ((k - 1) * SS) + i)]],
                             CurSect(K.fs, fp), cc)} })

(* the transfer through the window of one iteration of the write loop *)
WritePartial(K, fp, btw, bw, seed, wcnt) ==
    The({ IF Kw.res # FR_OK THEN Abort(Kw, fp, Kw.res, bw, <<>>)
          ELSE WriteLoop([Kw EXCEPT
                             !.fs.win = [x \in 0..(SS - 1) |->
                                 IF x >= fp.fptr % SS /\ x < (fp.fptr % SS) + wcnt
                                 THEN WBuf(seed, bw + (x - (fp.fptr % SS))) ELSE @[x]],
                             !.fs.wflag = 1,
                             !.moved = @ + wcnt],
                         Advance(fp, wcnt), btw - wcnt, bw + wcnt, seed) :
          Kw \in {move_window(K, CurSect(K.fs, fp))} })

(* one iteration of the write loop once fp.clust is set *)
WriteChunk(K, fp, btw, bw, seed) ==
    IF clst2sect(K.fs, fp.clust) = 0 THEN Abort(K, fp, FR_INT_ERR, bw, <<>>)
    ELSE IF btw \div SS > 0
    THEN WriteDirect(K, fp, btw, bw, seed, DirectCount(K.fs, fp, btw))
    ELSE WritePartial(K, fp, btw, bw, seed, MIN(SS - (fp.fptr % SS), btw))

(* allocation of the first cluster of a file, S being the outcome of the scan *)
AllocFirst(S, fp, btw, bw, seed) ==
    IF S.st = "denied" THEN Abort(S.K, fp, FR_DENIED, bw, <<>>)
    ELSE IF S.st = "hang" THEN Ret(S.K, fp, FR_OK, bw, <<>>, TRUE)
    ELSE The({ IF Kp.res # FR_OK THEN Abort(Kp, fp, Kp.res, bw, <<>>)
               ELSE WriteChunk([Kp EXCEPT !.fs.last_clst = S.clst],
                               [fp EXCEPT !.sclust = S.clst, !.clust = S.clst],
                               btw, bw, seed) :
               Kp \in {put_fat(S.K, S.clst, 268435455)} })

(* allocation of a cluster linked after fp.clust, S the outcome of the scan *)
AllocNext(S, fp, btw, bw, seed) ==
    IF S.st = "denied" THEN Abort(S.K, fp, FR_DENIED, bw, <<>>)
    ELSE IF S.st = "hang" THEN Ret(S.K, fp, FR_OK, bw, <<>>, TRUE)
    ELSE The({ IF Kp.res # FR_OK THEN Abort(Kp, fp, Kp.res, bw, <<>>)
               ELSE The({ IF Kq.res # FR_OK THEN Abort(Kq, fp, Kq.res, bw, <<>>)
                          ELSE WriteChunk([Kq EXCEPT !.fs.last_clst = S.clst],
                                          [fp EXCEPT !.clust = S.clst], btw, bw, seed) :
                          Kq \in {put_fat(Kp, fp.clust, S.clst)} }) :
               Kp \in {put_fat(S.K, S.clst, 268435455)} })

(* where the scan for a free cluster starts *)
FirstScl(f) ==
    IF ULt(f.last_clst, 2) \/ UGe(f.last_clst, f.n_fatent) THEN 2 ELSE f.last_clst
NextScl(f, fp) == IF UGe(fp.clust + 1, f.n_fatent) THEN 2 ELSE fp.clust + 1

WriteLoop(K, fp, btw, bw, seed) ==
    IF btw = 0
    THEN Ret(K, [fp EXCEPT !.flag = IF BitSet(@, FA_MODIFIED) THEN @
                                    ELSE @ + FA_MODIFIED], FR_OK, bw, <<>>, FALSE)
    ELSE IF fp.fptr = 0 /\ fp.sclust = 0
    THEN The({ AllocFirst(S, fp, btw, bw, seed) :
               S \in {FreeScan(K, FirstScl(K.fs), FirstScl(K.fs), ScanFuel(K.fs))} })
    ELSE IF fp.fptr % (K.fs.csize * SS) # 0 THEN WriteChunk(K, fp, btw, bw, seed)
    ELSE IF fp.fptr = 0
    THEN WriteChunk(K, [fp EXCEPT !.clust = fp.sclust], btw, bw, seed)
    ELSE The({ IF ULt(Kg.val, 2)
               THEN The({ AllocNext(S, fp, btw, bw, seed) :
                          S \in {FreeScan(Kg, NextScl(Kg.fs, fp), NextScl(Kg.fs, fp),
                                          ScanFuel(Kg.fs))} })
               ELSE WriteChunk(Kg, [fp EXCEPT !.clust = Kg.val], btw, bw, seed) :
               Kg \in {get_fat(K, fp.clust)} })

(* a write that does not look at the access mode of the handle *)
f_writeAnyMode(K, fp, btw, seed) ==
    IF fp.fs = 0 THEN Ret(K, fp, FR_INVALID_OBJECT, 0, <<>>, FALSE)
    ELSE IF fp.err # 0 THEN Ret(K, fp, FR_INT_ERR, 0, <<>>, FALSE)
    ELSE WriteLoop(K, fp, btw, 0, seed)

f_write(K, fp, btw, seed) ==
    IF fp.fs = 0 THEN Ret(K, fp, FR_INVALID_OBJECT, 0, <<>>, FALSE)
    ELSE IF fp.err # 0 THEN Ret(K, fp, FR_INT_ERR, 0, <<>>, FALSE)
    ELSE IF ~BitSet(fp.flag, FA_WRITE) THEN Ret(K, fp, FR_DENIED, 0, <<>>, FALSE)
    ELSE WriteLoop(K, fp, btw, 0, seed)

(* the chain walk of f_lseek *)
RECURSIVE SeekWalk(_, _, _, _)
SeekWalk(K, fp, ofs, bcs) ==
    IF ofs > bcs
    THEN The({ IF ULt(Kg.val, 2) \/ UGe(Kg.val, Kg.fs.n_fatent)
               THEN IF ~BitSet(fp.flag, FA_WRITE)
                    THEN [K |-> Kg, fp |-> fp, res |-> FR_INT_ERR]
                    ELSE [K |-> Kg, fp |-> [fp EXCEPT !.fptr = @ + ofs], res |-> FR_OK]
               ELSE SeekWalk(Kg, [fp EXCEPT !.clust = Kg.val, !.fptr = @ + bcs],
                             ofs - bcs, bcs) :
               Kg \in {get_fat(K, fp.clust)} })
    ELSE [K |-> K, fp |-> [fp EXCEPT !.fptr = @ + ofs], res |-> FR_OK]

(* f_lseek for a target ofs > 0: base is where the walk starts from *)
SeekFrom(K, fp, ofs, bcs, base) ==
    IF fp.sclust = 0
    THEN IF ofs - base > 0 THEN [K |-> K, fp |-> [fp EXCEPT !.fptr = base],
                                 res |-> FR_INT_ERR]
         ELSE [K |-> K, fp |-> [fp EXCEPT !.fptr = base, !.clust = 0], res |-> FR_OK]
    ELSE SeekWalk(K,
                  IF base = 0 THEN [fp EXCEPT !.fptr = 0, !.clust = fp.sclust]
                  ELSE [fp EXCEPT !.fptr = base],
                  ofs - base, bcs)

(* f_lseek once the target has been clamped for a handle without write access *)
SeekTo(K, fp, ofs, bcs) ==
    IF ofs = 0 THEN [K |-> K, fp |-> [fp EXCEPT !.fptr = 0], res |-> FR_OK]
    ELSE IF fp.fptr > 0 /\ ((ofs - 1) \div bcs) >= ((fp.fptr - 1) \div bcs)
    THEN SeekFrom(K, fp, ofs, bcs, BitAnd(fp.fptr - 1, (0 - 1) - (bcs - 1)))
    ELSE SeekFrom(K, fp, ofs, bcs, 0)

f_lseek(K, fp, ofs) ==
    IF fp.fs = 0 THEN [K |-> K, fp |-> fp, res |-> FR_INVALID_OBJECT]
    ELSE IF fp.err # 0 THEN [K |-> K, fp |-> fp, res |-> FR_INT_ERR]
    ELSE SeekTo(K, fp,
                IF ofs > fp.obj_size /\ ~BitSet(fp.flag, FA_WRITE) THEN fp.obj_size
                ELSE ofs,
                K.fs.csize * SS)

(* ------------------------------------------------------------------ *)
(* Directory object and free-cluster count                              *)
(* ------------------------------------------------------------------ *)
f_opendir(f, reg, d, path) ==
    IF Ch(path, 0) - 48 < 0 \/ Ch(path, 0) - 48 >= FF_VOLUMES
    THEN [dp |-> d, res |-> FR_INVALID_DRIVE]
    ELSE IF reg = 0 \/ f.fs_type = 0 THEN [dp |-> d, res |-> FR_NOT_ENABLED]
    ELSE [dp |-> [d EXCEPT !.fs = 1, !.id = f.id, !.index = 0,
                           !.sclust = IF f.fs_type = FS_FAT32 THEN f.dirbase ELSE 0],
          res |-> FR_OK]

f_closedir(d) ==
    IF d.fs = 0 THEN [dp |-> d, res |-> FR_INVALID_OBJECT]
    ELSE [dp |-> [d EXCEPT !.fs = 0], res |-> FR_OK]

(* the name f_readdir builds from the 11 bytes at off: base, and the    *)
(* extension after a dot when there is one                               *)
FnoBase(win, off, j) ==
    IF \E k \in 0..7 : win[off + k] = 32
    THEN (CHOOSE k \in 0..7 : win[off + k] = 32 /\ \A m \in 0..(k - 1) : win[off + m] # 32)
    ELSE j
FnoExt(win, off, j) ==
    IF \E k \in 8..10 : win[off + k] = 32
    THEN (CHOOSE k \in 8..10 : win[off + k] = 32 /\ \A m \in 8..(k - 1) : win[off + m] # 32)
    ELSE j
FnoName(win, off) ==
    [k \in 1..FnoBase(win, off, 8) |-> win[off + k - 1]]
    \o (IF win[off + 8] # 32
        THEN <<46>> \o [k \in 1..(FnoExt(win, off, 11) - 8) |-> win[off + 8 + k - 1]]
        ELSE <<>>)

(* an entry the iteration passes over: deleted, or carrying the label bit *)
SkipEntry(win, off) ==
    win[off + DIR_Name] = DDEM \/ BitSet(win[off + DIR_Attr], 8)

(* the loop of f_readdir at entry i, sect being the sector of the entry  *)
(* before it                                                             *)
RECURSIVE ReadDirScan(_, _, _, _)
ReadDirScan(K, d, i, sect) ==
    IF ~InRoot(K.fs, i)
    THEN [K |-> K, dp |-> [d EXCEPT !.index = i], res |-> FR_OK, name |-> <<>>]
    ELSE
    The({ IF K1.res # FR_OK THEN [K |-> K1, dp |-> d, res |-> K1.res, name |-> <<>>]
          ELSE
          The({ IF stops = {}
                THEN ReadDirScan(K1, d, LastInSect(K.fs, i) + 1,
                                 IF i > d.index /\ i % DirPerSect = 0 THEN sect + 1
                                 ELSE sect)
                ELSE IF K1.fs.win[EntOff(FirstSlot(stops)) + DIR_Name] = 0
                THEN [K |-> K1, dp |-> [d EXCEPT !.index = FirstSlot(stops)],
                      res |-> FR_OK, name |-> <<>>]
                ELSE [K |-> K1, dp |-> [d EXCEPT !.index = FirstSlot(stops) + 1],
                      res |-> FR_OK,
                      name |-> FnoName(K1.fs.win, EntOff(FirstSlot(stops)))] :
                stops \in {{ j \in i..LastInSect(K.fs, i) :
                               \/ K1.fs.win[EntOff(j) + DIR_Name] = 0
                               \/ ~SkipEntry(K1.fs.win, EntOff(j)) }} }) :
          K1 \in {IF i > d.index /\ i % DirPerSect = 0 THEN move_window(K, sect + 1)
                  ELSE [K EXCEPT !.res = FR_OK]} })

(* f_readdir(dp, fno); rewind tells that fno is NULL *)
f_readdir(K, d, rewind) ==
    IF d.fs = 0 THEN [K |-> K, dp |-> d, res |-> FR_INVALID_OBJECT, name |-> <<>>]
    ELSE IF rewind
    THEN [K |-> K, dp |-> [d EXCEPT !.index = 0], res |-> FR_OK, name |-> <<>>]
    ELSE The({ The({ IF K1.res # FR_OK
                     THEN [K |-> K1, dp |-> d, res |-> K1.res, name |-> <<>>]
                     ELSE ReadDirScan(K1, d, d.index, sect) :
                     K1 \in {move_window(K, sect)} }) :
               sect \in {(IF K.fs.fs_type = FS_FAT32 THEN clst2sect(K.fs, d.sclust)
                          ELSE K.fs.dirbase) + (d.index \div DirPerSect)} })

(* the counting loop of f_getfree: n zero entries seen below clst *)
RECURSIVE FreeCount(_, _, _)
FreeCount(K, clst, n) ==
    IF UGe(clst, K.fs.n_fatent) THEN [K EXCEPT !.val = n]
    ELSE The({ FreeCount(K1, clst + 1, IF K1.val = 0 THEN n + 1 ELSE n) :
               K1 \in {get_fat(K, clst)} })

(* f_getfree(path, nclst, fatfs): nclst is what is stored through the *)
(* pointer, -1 when nothing is stored                                   *)
f_getfree(K, reg, path) ==
    IF Ch(path, 0) - 48 < 0 \/ Ch(path, 0) - 48 >= FF_VOLUMES
    THEN [K |-> K, res |-> FR_INVALID_DRIVE, nclst |-> 0 - 1]
    ELSE IF reg = 0 \/ K.fs.fs_type = 0
    THEN [K |-> K, res |-> FR_NOT_ENABLED, nclst |-> 0 - 1]
    ELSE IF ULe(K.fs.free_clst, K.fs.n_fatent - 2)
    THEN [K |-> K, res |-> FR_OK, nclst |-> K.fs.free_clst]
    ELSE The({ [K |-> [K1 EXCEPT !.fs.free_clst = K1.val], res |-> FR_OK,
                nclst |-> K1.val] :
               K1 \in {FreeCount(K, 2, 0)} })

(* ------------------------------------------------------------------ *)
(* Formatted cards the model starts from                                *)
(* ------------------------------------------------------------------ *)
(* a boot sector with the given parameter block; sig36 is the pair of   *)
(* bytes at offsets 36/37, tag the offset of the text FAT               *)
MkBoot(csize, nrsv, nfats, rootent, tsect, fatsz, sig36, tag) ==
    [i \in 0..(SS - 1) |->
        CASE i = BPB_BytsPerSec -> M8(SS)
          [] i = BPB_BytsPerSec + 1 -> SS \div 256
          [] i = BPB_SecPerClus -> csize
          [] i = BPB_RsvdSecCnt -> M8(nrsv)
          [] i = BPB_RsvdSecCnt + 1 -> nrsv \div 256
          [] i = BPB_NumFATs -> nfats
          [] i = BPB_RootEntCnt -> M8(rootent)
          [] i = BPB_RootEntCnt + 1 -> rootent \div 256
          [] i = BPB_TotSec16 -> M8(tsect)
          [] i = BPB_TotSec16 + 1 -> tsect \div 256
          [] i = 21 -> 248
          [] i = BPB_FATSz16 -> M8(fatsz)
          [] i = BPB_FATSz16 + 1 -> fatsz \div 256
          [] i = 36 -> sig36[1]
          [] i = 37 -> sig36[2]
          [] i = BS_BootSig -> 41
          [] i = tag -> 70
          [] i = tag + 1 -> 65
          [] i = tag + 2 -> 84
          [] i = 510 -> 85
          [] i = 511 -> 170
          [] OTHER -> 0]

(* first FAT sector of an empty volume: entries 0 and 1 reserved *)
EmptyFat12 == [i \in 0..(SS - 1) |-> IF i = 0 THEN 248 ELSE IF i < 3 THEN 255 ELSE 0]
EmptyFat16 == [i \in 0..(SS - 1) |-> IF i = 0 THEN 248 ELSE IF i < 4 THEN 255 ELSE 0]

(* number of data clusters of the small 12-bit volume *)
SmallClusters == 3

(* 12-bit FAT, 1 sector per cluster, one FAT copy, 16 root entries *)
SmallCard ==
    LET boot == MkBoot(1, 1, 1, 16, 3 + SmallClusters, 1, <<85, 170>>, BS_FilSysType)
    IN  [s \in {0, 1} |-> IF s = 0 THEN boot ELSE EmptyFat12]

(* 16-bit FAT, 4 sectors per cluster, two FAT copies, 16 root entries *)
Fat16Card ==
    LET boot == MkBoot(4, 1, 2, 16, 1 + 32 + 1 + (4 * 4086), 16, <<85, 170>>,
                       BS_FilSysType)
    IN  [s \in {0, 1, 17} |-> IF s = 0 THEN boot ELSE EmptyFat16]

(* ------------------------------------------------------------------ *)
(* Initial state: zeroed static objects, nothing mounted                *)
(* ------------------------------------------------------------------ *)
NullFs ==
    [fs_type |-> 0, n_fats |-> 0, wflag |-> 0, id |-> 0, n_rootdir |-> 0,
     csize |-> 0, last_clst |-> 0, free_clst |-> 0, n_fatent |-> 0, fsize |-> 0,
     volbase |-> 0, fatbase |-> 0, dirbase |-> 0, database |-> 0, winsect |-> 0,
     win |-> ZeroSect]

NullDir == [fs |-> 0, id |-> 0, index |-> 0, sclust |-> 0]

NoCall ==
    [op |-> "none", h |-> 0, arg |-> 0, seed |-> 0, res |-> 0, cnt |-> 0,
     data |-> <<>>, n |-> 0, nAfter |-> 0, failed |-> FALSE, hung |-> FALSE,
     moved |-> 0, lost |-> FALSE, skew |-> FALSE, clash |-> FALSE, how |-> "none",
     pre |-> NullFil]

(* ------------------------------------------------------------------ *)
(* scheduler.c: the cooperative task scheduler.  S is the whole of its  *)
(* static state; a task function or timer callback is named by the      *)
(* scheduler calls it makes (UserCode).  Ticks stay far below 2^31, so  *)
(* the 32-bit tick arithmetic never wraps in the model.                 *)
(* ------------------------------------------------------------------ *)
SCHEDULER_MAX_TASKS == 16
SCHEDULER_MAX_TIMERS == 8
SCHEDULER_WATCHDOG_TIMEOUT == 5000
INVALID_ID == 255
TASK_PRIORITY_IDLE == 0
TASK_PRIORITY_NORMAL == 2
TASK_PRIORITY_HIGH == 3
TASK_STATE_INVALID == 0
TASK_STATE_READY == 1
TASK_STATE_RUNNING == 2
TASK_STATE_SUSPENDED == 3
TASK_TYPE_ONESHOT == 0
TASK_TYPE_PERIODIC == 1

TaskIds == 0..(SCHEDULER_MAX_TASKS - 1)
TimerIds == 0..(SCHEDULER_MAX_TIMERS - 1)

ZeroStats ==
    [run_count |-> 0, total_time_us |-> 0, max_time_us |-> 0, avg_time_us |-> 0,
     last_run_tick |-> 0, overrun_count |-> 0]

(* a task_tcb_t after memset 0; func "NULL" is the null function pointer *)
ZeroTcb ==
    [func |-> "NULL", priority |-> 0, type |-> 0, period_ms |-> 0, delay_ms |-> 0,
     state |-> TASK_STATE_INVALID, next_run_tick |-> 0, deadline_tick |-> 0,
     stats |-> ZeroStats]

ZeroTimer ==
    [is_active |-> 0, is_periodic |-> 0, period_ms |-> 0, expire_tick |-> 0,
     callback |-> "NULL"]

(* the static state after scheduler_init() *)
SchedInit ==
    [task_list |-> [i \in TaskIds |-> ZeroTcb],
     timer_list |-> [i \in TimerIds |-> ZeroTimer],
     task_count |-> 0, timer_count |-> 0, current_task |-> INVALID_ID,
     tick_count |-> 0, state_tick |-> 0, idle_count |-> 0, cpu_usage |-> 0,
     busy_time |-> 0, sample_start_tick |-> 0]

(* the test of scheduler_run and process_timers that a tick is reached *)
Reached(now, at) == now - at >= 0

scheduler_tick(S) ==
    [S EXCEPT !.tick_count = S.tick_count + 1, !.state_tick = S.tick_count + 1]

find_free_task_slot(S) ==
    IF \E i \in TaskIds : S.task_list[i].state = TASK_STATE_INVALID
    THEN CHOOSE i \in TaskIds :
            /\ S.task_list[i].state = TASK_STATE_INVALID
            /\ \A j \in 0..(i - 1) : S.task_list[j].state # TASK_STATE_INVALID
    ELSE INVALID_ID

find_free_timer_slot(S) ==
    IF \E i \in TimerIds : S.timer_list[i].callback = "NULL"
    THEN CHOOSE i \in TimerIds :
            /\ S.timer_list[i].callback = "NULL"
            /\ \A j \in 0..(i - 1) : S.timer_list[j].callback # "NULL"
    ELSE INVALID_ID

(* scheduler_task_create(config): config is <<>> for the null pointer, *)
(* <<cfg>> for a pointer to the task_config_t cfg                        *)
scheduler_task_create(S, config) ==
    IF config = <<>> THEN [S |-> S, ret |-> INVALID_ID]
    ELSE IF config[1].func = "NULL" THEN [S |-> S, ret |-> INVALID_ID]
    ELSE IF find_free_task_slot(S) = INVALID_ID THEN [S |-> S, ret |-> INVALID_ID]
    ELSE The({ [S |-> [S EXCEPT
                    !.task_list[id] =
                        [func |-> cfg.func, priority |-> cfg.priority,
                         type |-> cfg.type, period_ms |-> cfg.period_ms,
                         delay_ms |-> cfg.delay_ms, state |-> TASK_STATE_READY,
                         next_run_tick |-> S.tick_count + cfg.delay_ms,
                         deadline_tick |->
                             IF cfg.type = TASK_TYPE_PERIODIC
                             THEN S.tick_count + cfg.delay_ms
                                  + SCHEDULER_WATCHDOG_TIMEOUT
                             ELSE S.task_list[id].deadline_tick,
                         stats |-> ZeroStats],
                    !.task_count = M8(S.task_count + 1)],
                ret |-> id] :
               id \in {find_free_task_slot(S)}, cfg \in {config[1]} })

scheduler_task_delete(S, task_id) ==
    IF task_id >= SCHEDULER_MAX_TASKS THEN [S |-> S, ret |-> 0 - 1]
    ELSE IF S.task_list[task_id].state = TASK_STATE_INVALID
    THEN [S |-> S, ret |-> 0 - 1]
    ELSE [S |-> [S EXCEPT !.task_list[task_id].state = TASK_STATE_INVALID,
                          !.task_count = M8(S.task_count - 1)],
          ret |-> 0]

scheduler_task_suspend(S, task_id) ==
    IF task_id >= SCHEDULER_MAX_TASKS THEN [S |-> S, ret |-> 0 - 1]
    ELSE IF S.task_list[task_id].state = TASK_STATE_INVALID
    THEN [S |-> S, ret |-> 0 - 1]
    ELSE [S |-> [S EXCEPT !.task_list[task_id].state = TASK_STATE_SUSPENDED],
          ret |-> 0]

scheduler_task_resume(S, task_id) ==
    IF task_id >= SCHEDULER_MAX_TASKS THEN [S |-> S, ret |-> 0 - 1]
    ELSE IF S.task_list[task_id].state # TASK_STATE_SUSPENDED
    THEN [S |-> S, ret |-> 0 - 1]
    ELSE [S |-> [S EXCEPT !.task_list[task_id].state = TASK_STATE_READY,
                          !.task_list[task_id].next_run_tick = S.tick_count],
          ret |-> 0]

scheduler_timer_create(S, period_ms, callback, is_periodic) ==
    IF callback = "NULL" \/ period_ms = 0 THEN [S |-> S, ret |-> INVALID_ID]
    ELSE IF find_free_timer_slot(S) = INVALID_ID THEN [S |-> S, ret |-> INVALID_ID]
    ELSE The({ [S |-> [S EXCEPT
                    !.timer_list[id] =
                        [is_active |-> 0, is_periodic |-> is_periodic,
                         period_ms |-> period_ms, expire_tick |-> 0,
                         callback |-> callback],
                    !.timer_count = M8(S.timer_count + 1)],
                ret |-> id] :
               id \in {find_free_timer_slot(S)} })

scheduler_timer_start(S, timer_id) ==
    IF timer_id >= SCHEDULER_MAX_TIMERS THEN [S |-> S, ret |-> 0 - 1]
    ELSE IF S.timer_list[timer_id].callback = "NULL" THEN [S |-> S, ret |-> 0 - 1]
    ELSE [S |-> [S EXCEPT
                    !.timer_list[timer_id].expire_tick =
                        S.tick_count + S.timer_list[timer_id].period_ms,
                    !.timer_list[timer_id].is_active = 1],
          ret |-> 0]

(* the configuration of the task that a task function creates *)
ChildConfig ==
    [func |-> "idle", priority |-> TASK_PRIORITY_NORMAL, type |-> TASK_TYPE_ONESHOT,
     period_ms |-> 0, delay_ms |-> 1]

(* the scheduler calls made by the user function called name; self is   *)
(* the id it was given (the running task, or the timer for a callback)   *)
UserCode(name, self) ==
    CASE name = "quit" -> <<[op |-> "delete", id |-> self]>>
      [] name = "pause" -> <<[op |-> "suspend", id |-> self]>>
      [] name = "spawn" -> <<[op |-> "create", cfg |-> <<ChildConfig>>]>>
      [] name = "respawn" -> <<[op |-> "delete", id |-> self],
                               [op |-> "create", cfg |-> <<ChildConfig>>]>>
      [] name = "kill0" -> <<[op |-> "delete", id |-> 0]>>
      [] name = "wake0" -> <<[op |-> "resume", id |-> 0]>>
      [] OTHER -> <<>>

UserCall(S, c) ==
    CASE c.op = "create" -> scheduler_task_create(S, c.cfg).S
      [] c.op = "delete" -> scheduler_task_delete(S, c.id).S
      [] c.op = "suspend" -> scheduler_task_suspend(S, c.id).S
      [] c.op = "resume" -> scheduler_task_resume(S, c.id).S

RECURSIVE UserRun(_, _, _)
UserRun(S, calls, i) ==
    IF i > Len(calls) THEN S
    ELSE The({ UserRun(S1, calls, i + 1) : S1 \in {UserCall(S, calls[i])} })

(* process_timers(): the loop from timer i on, now its current_tick *)
RECURSIVE process_timers(_, _, _)
process_timers(S, now, i) ==
    IF i >= SCHEDULER_MAX_TIMERS THEN S
    ELSE IF /\ S.timer_list[i].is_active # 0
            /\ S.timer_list[i].callback # "NULL"
            /\ Reached(now, S.timer_list[i].expire_tick)
    THEN The({ process_timers(
                   IF S1.timer_list[i].is_periodic # 0
                   THEN [S1 EXCEPT !.timer_list[i].expire_tick =
                                       now + S1.timer_list[i].period_ms]
                   ELSE [S1 EXCEPT !.timer_list[i].is_active = 0],
                   now, i + 1) :
               S1 \in {UserRun(S, UserCode(S.timer_list[i].callback, i), 1)} })
    ELSE process_timers(S, now, i + 1)

(* the selection loop of scheduler_run from task i on *)
RECURSIVE SelectTask(_, _, _, _, _)
SelectTask(tl, now, i, task, prio) ==
    IF i >= SCHEDULER_MAX_TASKS THEN task
    ELSE IF /\ tl[i].state = TASK_STATE_READY
            /\ Reached(now, tl[i].next_run_tick)
            /\ tl[i].priority > prio \/ task = INVALID_ID
    THEN SelectTask(tl, now, i + 1, i, tl[i].priority)
    ELSE SelectTask(tl, now, i + 1, task, prio)

(* the statistics block of scheduler_run; scheduler_get_us is tick * 1000 *)
RunStats(st, type, period_ms, exec_time, now) ==
    [run_count |-> st.run_count + 1,
     total_time_us |-> st.total_time_us + exec_time,
     max_time_us |-> IF exec_time > st.max_time_us THEN exec_time ELSE st.max_time_us,
     avg_time_us |-> (st.total_time_us + exec_time) \div (st.run_count + 1),
     last_run_tick |-> now,
     overrun_count |->
         IF type = TASK_TYPE_PERIODIC /\ exec_time > period_ms * 1000
         THEN st.overrun_count + 1 ELSE st.overrun_count]

(* what scheduler_run does through tcb once the task function returned *)
AfterTask(S, t, exec_time, now) ==
    The({ IF tcb.type = TASK_TYPE_PERIODIC
          THEN [S EXCEPT
                   !.task_list[t].stats =
                       RunStats(tcb.stats, tcb.type, tcb.period_ms, exec_time, now),
                   !.task_list[t].next_run_tick = now + tcb.period_ms,
                   !.task_list[t].state = TASK_STATE_READY,
                   !.task_list[t].deadline_tick =
                       now + tcb.period_ms + SCHEDULER_WATCHDOG_TIMEOUT,
                   !.current_task = INVALID_ID]
          ELSE [S EXCEPT
                   !.task_list[t].stats =
                       RunStats(tcb.stats, tcb.type, tcb.period_ms, exec_time, now),
                   !.task_list[t].state = TASK_STATE_INVALID,
                   !.task_count = M8(S.task_count - 1),
                   !.current_task = INVALID_ID] :
          tcb \in {S.task_list[t]} })

(* the task function of task t runs: adv ticks pass, then it makes its calls *)
TaskBody(S, t, adv) ==
    The({ UserRun(S1, UserCode(S.task_list[t].func, t), 1) :
          S1 \in {[S EXCEPT !.tick_count = S.tick_count + adv,
                            !.state_tick = IF adv > 0 THEN S.tick_count + adv
                                           ELSE S.state_tick]} })

update_cpu_usage(S) ==
    IF S.tick_count - S.sample_start_tick >= 1000
    THEN [S EXCEPT !.cpu_usage = (S.busy_time * 100)
                                 \div (S.tick_count - S.sample_start_tick),
                   !.busy_time = 0, !.sample_start_tick = S.tick_count]
    ELSE S

(* check_watchdog(); no watchdog callback is registered *)
check_watchdog(S) ==
    [S EXCEPT !.task_list =
        [i \in TaskIds |->
            IF /\ S.task_list[i].state = TASK_STATE_READY
               /\ S.task_list[i].type = TASK_TYPE_PERIODIC
               /\ S.tick_count - S.task_list[i].deadline_tick > 0
            THEN [S.task_list[i] EXCEPT
                     !.deadline_tick = S.tick_count + SCHEDULER_WATCHDOG_TIMEOUT]
            ELSE S.task_list[i]]]

(* scheduler_run(); adv is the number of ticks that pass while the task *)
(* function runs.  at is the task list the selection loop read, sel the *)
(* task it selected                                                      *)
scheduler_run(S, adv) ==
    The({ The({ [S |-> check_watchdog(update_cpu_usage(
                          IF sel # INVALID_ID
                          THEN The({ [S3 EXCEPT !.busy_time = S3.busy_time + 1] :
                                     S3 \in {AfterTask(
                                                TaskBody(
                                                    [S1 EXCEPT
                                                       !.task_list[sel].state =
                                                           TASK_STATE_RUNNING,
                                                       !.current_task = sel],
                                                    sel, adv),
                                                sel, adv * 1000, S.tick_count)} })
                          ELSE [S1 EXCEPT !.idle_count = S1.idle_count + 1])),
                 sel |-> sel, at |-> S1.task_list, now |-> S.tick_count] :
                sel \in {SelectTask(S1.task_list, S.tick_count, 0, INVALID_ID,
                                    TASK_PRIORITY_IDLE)} }) :
          S1 \in {process_timers(S, S.tick_count, 0)} })

(* the record of the last scheduler call: its name, argument and return *)
(* value; for scheduler_run the task selected, the task list the         *)
(* selection read and the tick it compared with                          *)
NoSchedCall ==
    [op |-> "none", arg |-> 0, ret |-> 0, sel |-> INVALID_ID,
     at |-> SchedInit.task_list, now |-> 0]

MonIdle ==
    [st |-> "idle", path |-> <<>>, n |-> 0, seed |-> 0, wres |-> 0, wcnt |-> 0,
     cres |-> 0, writes |-> <<>>, devfail |-> FALSE, rec |-> FALSE, ops |-> <<>>]

InitWith(P) ==
    /\ fs = NullFs
    /\ FatFs = 0
    /\ Fsid = 0
    /\ Stat = STA_NOINIT
    /\ dev \in P.cards
    /\ fault \in P.faults
    /\ fil = [h \in P.handles |-> NullFil]
    /\ dp = NullDir
    /\ last = NoCall
    /\ mon = [h \in P.handles |-> MonIdle]
    /\ step = 0
    /\ sched = SchedInit
    /\ slog = NoSchedCall

(* ------------------------------------------------------------------ *)
(* Observation of the calls made (no effect on the program state)       *)
(* ------------------------------------------------------------------ *)
CallRec(op, h, arg, seed, K, res, cnt, data, hung, how, pre) ==
    [op |-> op, h |-> h, arg |-> arg, seed |-> seed, res |-> res, cnt |-> cnt,
     data |-> data, n |-> K.n, nAfter |-> K.nAfter, failed |-> K.failed,
     hung |-> hung, moved |-> K.moved, lost |-> K.lost, skew |-> K.skew,
     clash |-> K.clash, how |-> how, pre |-> pre]

(* what the observer of handle h remembers after a call on h *)
MonCall(m, op, arg, seed, path, K, res, cnt, how, pre) ==
    LET clean == ~K.failed
    IN  CASE op = "f_open" ->
              IF res = FR_OK /\ clean /\ how = "created"
              THEN [MonIdle EXCEPT !.st = "created", !.path = path]
              ELSE IF res = FR_OK /\ clean /\ m.st = "closed" /\ m.path = path
              THEN [m EXCEPT !.st = "reopened", !.writes = <<>>, !.devfail = FALSE]
              ELSE [MonIdle EXCEPT !.path = path]
          [] op = "f_write" ->
              [m EXCEPT !.st = IF m.st = "created" /\ clean THEN "written" ELSE "idle",
                        !.n = arg, !.seed = seed, !.wres = res, !.wcnt = cnt,
                        !.writes = IF cnt > 0
                                   THEN Append(@, [at |-> pre.fptr, n |-> cnt,
                                                   seed |-> seed])
                                   ELSE @,
                        !.devfail = @ \/ (res = FR_DISK_ERR /\ K.failed)]
          [] op = "f_read" ->
              [m EXCEPT !.st = IF m.st = "rewound" /\ clean /\ arg = m.n
                               THEN "readback"
                               ELSE IF m.st = "reopened" /\ clean /\ arg = m.n
                               THEN "reread" ELSE "idle",
                        !.devfail = @ \/ (res = FR_DISK_ERR /\ K.failed)]
          [] op = "f_lseek" ->
              [m EXCEPT !.st = IF m.st = "written" /\ clean /\ arg = 0
                               THEN "rewound" ELSE "idle"]
          [] op = "f_close" ->
              [m EXCEPT !.st = IF m.st = "written" /\ clean THEN "closed" ELSE "idle",
                        !.cres = res]
          [] OTHER -> [m EXCEPT !.st = "idle"]

(* a call on handle h: the other handles' scenarios are interrupted *)
(* and, where the calls are recorded, the call is added to the record of h *)
MonNext(h, op, arg, seed, path, K, res, cnt, how, pre) ==
    [g \in DOMAIN mon |->
        IF g = h
        THEN [MonCall(mon[g], op, arg, seed, path, K, res, cnt, how, pre) EXCEPT
                 !.rec = mon[g].rec,
                 !.ops = IF mon[g].rec
                         THEN Append(mon[g].ops,
                                     [op |-> op, arg |-> arg, seed |-> seed, path |-> path])
                         ELSE <<>>]
        ELSE [mon[g] EXCEPT !.st = "idle"]]

Commit(K) ==
    /\ fs' = K.fs
    /\ dev' = K.dev
    /\ fault' = K.fault
    /\ Stat' = K.Stat

Ctx == MkK(fs, dev, fault, Stat)

(* ------------------------------------------------------------------ *)
(* Actions: one per filesystem call.  P holds the input sets and the   *)
(* call discipline of the caller.                                       *)
(* ------------------------------------------------------------------ *)
CanCall(P) == step < P.maxops /\ ~last.hung

Mount(P) ==
    /\ CanCall(P)
    /\ P.remount \/ fs.fs_type = 0
    /\ \E opt \in P.mopts, sd_ok \in P.sdok :
          \E R \in {f_mount(Ctx, FatFs, Fsid, TRUE, 0, opt, sd_ok)} :
              /\ Commit(R.K)
              /\ FatFs' = R.FatFs
              /\ Fsid' = R.Fsid
              /\ last' = CallRec("f_mount", 0, opt, 0, R.K, R.K.res, 0, <<>>, FALSE,
                                 "none", NullFil)
    /\ mon' = [g \in DOMAIN mon |-> [mon[g] EXCEPT !.st = "idle"]]
    /\ step' = step + 1
    /\ UNCHANGED <<sched, slog>>
    /\ UNCHANGED <<fil, dp>>

Open(P) ==
    /\ CanCall(P)
    /\ \E h \in P.handles, path \in P.paths, mode \in P.modes :
          /\ P.live => (fil[h].fs = 0 /\ fs.fs_type # 0)
          /\ \E R \in {f_open(Ctx, FatFs, fil[h], path, mode)} :
                 /\ Commit(R.K)
                 /\ fil' = [fil EXCEPT ![h] = R.fp]
                 /\ last' = CallRec("f_open", h, mode, 0, R.K, R.res, 0, <<>>, FALSE,
                                    R.how, fil[h])
                 /\ mon' = MonNext(h, "f_open", mode, 0, path, R.K, R.res, 0, R.how,
                                   fil[h])
    /\ step' = step + 1
    /\ UNCHANGED <<sched, slog>>
    /\ UNCHANGED <<FatFs, Fsid, dp>>

Close(P) ==
    /\ CanCall(P)
    /\ \E h \in P.handles :
          /\ P.live => fil[h].fs # 0
          /\ \E R \in {f_close(Ctx, fil[h])} :
                 /\ Commit(R.K)
                 /\ fil' = [fil EXCEPT ![h] = R.fp]
                 /\ last' = CallRec("f_close", h, 0, 0, R.K, R.res, 0, <<>>, FALSE,
                                    "none", fil[h])
                 /\ mon' = MonNext(h, "f_close", 0, 0, <<>>, R.K, R.res, 0, "none",
                                   fil[h])
    /\ step' = step + 1
    /\ UNCHANGED <<sched, slog>>
    /\ UNCHANGED <<FatFs, Fsid, dp>>

Sync(P) ==
    /\ CanCall(P)
    /\ \E h \in P.handles :
          /\ P.live => fil[h].fs # 0
          /\ \E R \in {f_sync(Ctx, fil[h])} :
                 /\ Commit(R.K)
                 /\ fil' = [fil EXCEPT ![h] = R.fp]
                 /\ last' = CallRec("f_sync", h, 0, 0, R.K, R.res, 0, <<>>, FALSE,
                                    "none", fil[h])
                 /\ mon' = MonNext(h, "f_sync", 0, 0, <<>>, R.K, R.res, 0, "none",
                                   fil[h])
    /\ step' = step + 1
    /\ UNCHANGED <<sched, slog>>
    /\ UNCHANGED <<FatFs, Fsid, dp>>

Read(P) ==
    /\ CanCall(P)
    /\ \E h \in P.handles, btr \in P.rd :
          /\ P.live => fil[h].fs # 0
          /\ \E R \in {f_read(Ctx, fil[h], btr)} :
                 /\ Commit(R.K)
                 /\ fil' = [fil EXCEPT ![h] = R.fp]
                 /\ last' = CallRec("f_read", h, btr, 0, R.K, R.res, R.cnt, R.data,
                                    FALSE, "none", fil[h])
                 /\ mon' = MonNext(h, "f_read", btr, 0, <<>>, R.K, R.res, R.cnt,
                                   "none", fil[h])
    /\ step' = step + 1
    /\ UNCHANGED <<sched, slog>>
    /\ UNCHANGED <<FatFs, Fsid, dp>>

Write(P) ==
    /\ CanCall(P)
    /\ \E h \in P.handles, btw \in P.wr, seed \in P.seeds :
          /\ P.live => fil[h].fs # 0
          /\ \E R \in {f_write(Ctx, fil[h], btw, seed)} :
                 /\ Commit(R.K)
                 /\ fil' = [fil EXCEPT ![h] = R.fp]
                 /\ last' = CallRec("f_write", h, btw, seed, R.K, R.res, R.cnt, <<>>,
                                    R.hung, "none", fil[h])
                 /\ mon' = MonNext(h, "f_write", btw, seed, <<>>, R.K, R.res, R.cnt,
                                   "none", fil[h])
    /\ step' = step + 1
    /\ UNCHANGED <<sched, slog>>
    /\ UNCHANGED <<FatFs, Fsid, dp>>

Seek(P) ==
    /\ CanCall(P)
    /\ \E h \in P.handles, ofs \in P.of :
          /\ P.live => fil[h].fs # 0
          /\ \E R \in {f_lseek(Ctx, fil[h], ofs)} :
                 /\ Commit(R.K)
                 /\ fil' = [fil EXCEPT ![h] = R.fp]
                 /\ last' = CallRec("f_lseek", h, ofs, 0, R.K, R.res, 0, <<>>, FALSE,
                                    "none", fil[h])
                 /\ mon' = MonNext(h, "f_lseek", ofs, 0, <<>>, R.K, R.res, 0, "none",
                                   fil[h])
    /\ step' = step + 1
    /\ UNCHANGED <<sched, slog>>
    /\ UNCHANGED <<FatFs, Fsid, dp>>

OpenDir(P) ==
    /\ CanCall(P)
    /\ \E path \in P.paths :
          \E R \in {f_opendir(fs, FatFs, dp, path)} :
              /\ dp' = R.dp
              /\ last' = CallRec("f_opendir", 0, 0, 0, Ctx, R.res, 0, <<>>, FALSE,
                                 "none", NullFil)
    /\ mon' = [g \in DOMAIN mon |-> [mon[g] EXCEPT !.st = "idle"]]
    /\ step' = step + 1
    /\ UNCHANGED <<sched, slog>>
    /\ UNCHANGED <<fs, dev, fault, Stat, FatFs, Fsid, fil>>

GetFree(P) ==
    /\ CanCall(P)
    /\ \E path \in P.paths :
          \E R \in {f_getfree(Ctx, FatFs, path)} :
              /\ Commit(R.K)
              /\ last' = CallRec("f_getfree", 0, 0, 0, R.K, R.res, R.nclst, <<>>,
                                 FALSE, "none", NullFil)
    /\ mon' = [g \in DOMAIN mon |-> [mon[g] EXCEPT !.st = "idle"]]
    /\ step' = step + 1
    /\ UNCHANGED <<sched, slog>>
    /\ UNCHANGED <<FatFs, Fsid, fil, dp>>

ReadDir(P) ==
    /\ CanCall(P)
    /\ \E R \in {f_readdir(Ctx, dp, FALSE)} :
          /\ Commit(R.K)
          /\ dp' = R.dp
          /\ last' = CallRec("f_readdir", 0, 0, 0, R.K, R.res, Len(R.name), R.name,
                             FALSE, "none", NullFil)
    /\ mon' = [g \in DOMAIN mon |-> [mon[g] EXCEPT !.st = "idle"]]
    /\ step' = step + 1
    /\ UNCHANGED <<sched, slog>>
    /\ UNCHANGED <<FatFs, Fsid, fil>>

RewindDir(P) ==
    /\ CanCall(P)
    /\ \E R \in {f_readdir(Ctx, dp, TRUE)} :
          /\ Commit(R.K)
          /\ dp' = R.dp
          /\ last' = CallRec("f_readdir", 0, 1, 0, R.K, R.res, 0, <<>>, FALSE,
                             "none", NullFil)
    /\ mon' = [g \in DOMAIN mon |-> [mon[g] EXCEPT !.st = "idle"]]
    /\ step' = step + 1
    /\ UNCHANGED <<sched, slog>>
    /\ UNCHANGED <<FatFs, Fsid, fil>>

CloseDir(P) ==
    /\ CanCall(P)
    /\ \E R \in {f_closedir(dp)} :
          /\ dp' = R.dp
          /\ last' = CallRec("f_closedir", 0, 0, 0, Ctx, R.res, 0, <<>>, FALSE,
                             "none", NullFil)
    /\ mon' = [g \in DOMAIN mon |-> [mon[g] EXCEPT !.st = "idle"]]
    /\ step' = step + 1
    /\ UNCHANGED <<sched, slog>>
    /\ UNCHANGED <<fs, dev, fault, Stat, FatFs, Fsid, fil>>

NextWith(P) ==
    \/ Mount(P)
    \/ Open(P)
    \/ Close(P)
    \/ Sync(P)
    \/ Read(P)
    \/ Write(P)
    \/ Seek(P)

(* ------------------------------------------------------------------ *)
(* Specification: arbitrary calls on one handle of the small volume,   *)
(* with at most one transient card fault                                *)
(* ------------------------------------------------------------------ *)
MaxOps == 5
MaxFault == 8
PathA == <<48, 58, 65, 46, 84, 88, 84>>

Gen ==
    [cards |-> {SmallCard}, faults |-> (-1)..MaxFault, handles |-> {1},
     paths |-> {PathA}, modes |-> {FA_READ, FA_READ + FA_WRITE + FA_CREATE_ALWAYS},
     mopts |-> {1}, sdok |-> {TRUE}, rd |-> {100, 600}, wr |-> {0, 100, 600, 1100},
     of |-> {0, 200}, seeds |-> {1}, maxops |-> MaxOps, remount |-> TRUE,
     live |-> FALSE]

Init == InitWith(Gen)
Next == NextWith(Gen)
Spec == Init /\ [][Next]_vars

(* ------------------------------------------------------------------ *)
(* Specification: one handle on the 16-bit-FAT volume of the test      *)
(* scenarios (512-byte sectors, 4 sectors per cluster, 2 FAT copies),  *)
(* no card fault, calls made only on a mounted volume / an open handle *)
(* ------------------------------------------------------------------ *)
MaxOpsScen == 6
PathTest == <<48, 58, 84, 69, 83, 84, 46, 84, 88, 84>>

Scen ==
    [cards |-> {Fat16Card}, faults |-> {0 - 1}, handles |-> {1},
     paths |-> {PathTest},
     modes |-> {FA_READ, FA_READ + FA_WRITE + FA_CREATE_ALWAYS},
     mopts |-> {1}, sdok |-> {TRUE}, rd |-> {0, 100, 512, 1000, 2048, 5000},
     wr |-> {0, 100, 512, 1000, 2048, 5000}, of |-> {0}, seeds |-> {0},
     maxops |-> MaxOpsScen, remount |-> FALSE, live |-> TRUE]

InitScen == InitWith(Scen)
NextScen == NextWith(Scen)
SpecScen == InitScen /\ [][NextScen]_vars

(* ------------------------------------------------------------------ *)
(* Specification: the FAT entry functions and the cluster mapping on   *)
(* mounted volumes of the three FAT widths                              *)
(* ------------------------------------------------------------------ *)
(* a 32-bit-FAT boot sector: no root entry count, 32-bit FAT size and   *)
(* total, type text at offset 82                                        *)
MkBoot32(csize, nrsv, nfats, tsect, fatsz, rootclus) ==
    ST_DWORD(ST_DWORD(ST_DWORD(
        [i \in 0..(SS - 1) |->
            CASE i = BPB_BytsPerSec -> M8(SS)
              [] i = BPB_BytsPerSec + 1 -> SS \div 256
              [] i = BPB_SecPerClus -> csize
              [] i = BPB_RsvdSecCnt -> M8(nrsv)
              [] i = BPB_RsvdSecCnt + 1 -> nrsv \div 256
              [] i = BPB_NumFATs -> nfats
              [] i = 21 -> 248
              [] i = 66 -> 41
              [] i = BS_FilSysType32 -> 70
              [] i = BS_FilSysType32 + 1 -> 65
              [] i = BS_FilSysType32 + 2 -> 84
              [] i = 510 -> 85
              [] i = 511 -> 170
              [] OTHER -> 0],
        BPB_TotSec32, tsect), BPB_FATSz32, fatsz), BPB_RootClus32, rootclus)

(* 12-bit FAT, 2 sectors per cluster, 400 clusters: the entry of       *)
(* cluster 341 lies in bytes 511 and 512 of the FAT                     *)
Fat12Wide ==
    LET boot == MkBoot(2, 1, 1, 16, 1 + 2 + 1 + (2 * 400), 2, <<85, 170>>,
                       BS_FilSysType)
    IN  [s \in {0, 1} |-> IF s = 0 THEN boot ELSE EmptyFat12]

(* 32-bit FAT, 8 sectors per cluster, 70000 clusters, a FAT of 0xAA55  *)
(* sectors; the entry of cluster 3 has reserved upper bits set          *)
Fat32Card ==
    LET boot == MkBoot32(8, 32, 1, 32 + 43605 + (8 * 70000), 43605, 2)
        fat == [i \in 0..(SS - 1) |->
                  CASE i = 0 -> 248
                    [] i \in {1, 2, 4, 5, 6, 8, 9, 10} -> 255
                    [] i \in {3, 7, 11} -> 15
                    [] i = 12 -> 5
                    [] i = 15 -> 160
                    [] OTHER -> 0]
    IN  [s \in {0, 32} |-> IF s = 0 THEN boot ELSE fat]

MaxFatOps == 3
ProbeClusters == {2, 3, 4, 340, 341, 342}

(* values that fit the entry width of the mounted volume *)
FatValues(t) ==
    IF t = FS_FAT12 THEN {0, 4095, 2652}
    ELSE IF t = FS_FAT16 THEN {0, 65535, 42435}
    ELSE {0, 268435455, 173817367}

FatP ==
    [cards |-> {SmallCard, Fat12Wide, Fat16Card, Fat32Card}, faults |-> {0 - 1},
     handles |-> {1}, paths |-> {PathA}, modes |-> {FA_READ}, mopts |-> {1},
     sdok |-> {TRUE}, rd |-> {}, wr |-> {}, of |-> {}, seeds |-> {},
     maxops |-> MaxFatOps, remount |-> FALSE, live |-> TRUE,
     clusters |-> ProbeClusters]

(* put_fat(fs, clst, val) on the mounted volume *)
PutFat(P) ==
    /\ CanCall(P)
    /\ fs.fs_type # 0
    /\ \E clst \in P.clusters, val \in FatValues(fs.fs_type) :
          \E K \in {put_fat(Ctx, clst, val)} :
              /\ Commit(K)
              /\ last' = CallRec("put_fat", 0, clst, val, K, K.res, 0, <<>>, FALSE,
                                 "none", NullFil)
    /\ step' = step + 1
    /\ UNCHANGED <<sched, slog>>
    /\ UNCHANGED <<FatFs, Fsid, fil, dp, mon>>

(* get_fat(fs, clst) on the mounted volume *)
GetFat(P) ==
    /\ CanCall(P)
    /\ fs.fs_type # 0
    /\ \E clst \in P.clusters :
          \E K \in {get_fat(Ctx, clst)} :
              /\ Commit(K)
              /\ last' = CallRec("get_fat", 0, clst, 0, K, FR_OK, K.val, <<>>, FALSE,
                                 "none", NullFil)
    /\ step' = step + 1
    /\ UNCHANGED <<sched, slog>>
    /\ UNCHANGED <<FatFs, Fsid, fil, dp, mon>>

(* clst2sect(fs, clst) on the mounted volume *)
Clst2Sect(P) ==
    /\ CanCall(P)
    /\ fs.fs_type # 0
    /\ \E clst \in P.clusters \cup {0, 1, fs.n_fatent - 1, fs.n_fatent} :
          last' = CallRec("clst2sect", 0, clst, 0, Ctx, FR_OK, clst2sect(fs, clst),
                          <<>>, FALSE, "none", NullFil)
    /\ step' = step + 1
    /\ UNCHANGED <<sched, slog>>
    /\ UNCHANGED <<fs, dev, fault, Stat, FatFs, Fsid, fil, dp, mon>>

InitFat == InitWith(FatP)
NextFat ==
    \/ Mount(FatP)
    \/ PutFat(FatP)
    \/ GetFat(FatP)
    \/ Clst2Sect(FatP)
SpecFat == InitFat /\ [][NextFat]_vars

(* ------------------------------------------------------------------ *)
(* Specification: seeks on files the volume holds or the calls create,  *)
(* handles with and without write access, no card fault                 *)
(* ------------------------------------------------------------------ *)
(* a sector with a 32-byte directory entry at offset off *)
WithDirEntry(sect, off, sfn, size, sc) ==
    ST_DWORD(ST_WORD(ST_WORD(
        [x \in 0..(SS - 1) |->
            IF x >= off /\ x < off + 11 THEN sfn[x - off]
            ELSE IF x = off + DIR_Attr THEN AM_ARC
            ELSE IF x > off + DIR_Attr /\ x < off + SZ_DIRE THEN 0
            ELSE sect[x]],
        off + DIR_FstClusLO, M16(sc)), off + DIR_FstClusHI, sc \div 65536),
        off + DIR_FileSize, size)

(* the 16-bit-FAT volume holding TEST.TXT of 3000 bytes in the chain    *)
(* 2 -> 3 of 2048-byte clusters                                          *)
FileCard ==
    LET fat == ST_WORD(ST_WORD(EmptyFat16, 4, 3), 6, 65535)
        root == WithDirEntry(ZeroSect, 0, MkSfn(SubSeq(PathTest, 3, Len(PathTest))),
                             3000, 2)
    IN  [s \in {0, 1, 17, 33} |->
           IF s = 0 THEN Fat16Card[0] ELSE IF s = 33 THEN root ELSE fat]

MaxOpsSeek == 7

SeekP ==
    [cards |-> {SmallCard, FileCard}, faults |-> {0 - 1}, handles |-> {1},
     paths |-> {PathTest},
     modes |-> {FA_READ, FA_READ + FA_WRITE + FA_CREATE_ALWAYS},
     mopts |-> {1}, sdok |-> {TRUE}, rd |-> {100}, wr |-> {100, 600},
     of |-> {0, 1000, 10000}, seeds |-> {0}, maxops |-> MaxOpsSeek,
     remount |-> FALSE, live |-> TRUE]

InitSeek == InitWith(SeekP)
NextSeek == NextWith(SeekP)
SpecSeek == InitSeek /\ [][NextSeek]_vars

(* ------------------------------------------------------------------ *)
(* Specification: files opened under several spellings and lengths of  *)
(* name on the small volume, no card fault                              *)
(* ------------------------------------------------------------------ *)
MaxOpsName == 5
PathLower == <<48, 58, 116, 101, 115, 116, 46, 116, 120, 116>>
PathLongBase == <<48, 58, 76, 79, 78, 71, 78, 65, 77, 69, 49, 46, 84, 88, 84>>
PathLongExt == <<48, 58, 65, 46, 84, 69, 88, 84>>

NameP ==
    [cards |-> {SmallCard}, faults |-> {0 - 1}, handles |-> {1},
     paths |-> {PathTest, PathLower, PathLongBase, PathLongExt},
     modes |-> {FA_READ, FA_READ + FA_WRITE + FA_CREATE_ALWAYS},
     mopts |-> {1}, sdok |-> {TRUE}, rd |-> {100}, wr |-> {100},
     of |-> {0}, seeds |-> {0}, maxops |-> MaxOpsName,
     remount |-> FALSE, live |-> TRUE]

InitName == InitWith(NameP)
NextName == NextWith(NameP)
SpecName == InitName /\ [][NextName]_vars

(* ------------------------------------------------------------------ *)
(* Specification: mounting cards with and without a boot sector or a   *)
(* partition table, a card that may fail to initialise, at most one    *)
(* failing transfer                                                     *)
(* ------------------------------------------------------------------ *)
(* a partition table sector: type byte and start sector of the 4 entries *)
MkMbr(types, starts) ==
    [i \in 0..(SS - 1) |->
        IF i = 510 THEN 85
        ELSE IF i = 511 THEN 170
        ELSE IF i >= MBR_Table /\ i < 510
        THEN (IF (i - MBR_Table) % 16 = 4 THEN types[((i - MBR_Table) \div 16) + 1]
              ELSE IF (i - MBR_Table) % 16 = 8
              THEN starts[((i - MBR_Table) \div 16) + 1]
              ELSE 0)
        ELSE 0]

(* a card with a partition table and the small volume at sector 8 *)
PartCard(types, starts) ==
    [s \in {0, 8, 9} |->
        IF s = 0 THEN MkMbr(types, starts)
        ELSE IF s = 8 THEN SmallCard[0] ELSE EmptyFat12]

(* the small volume with a boot sector as formatting tools write it:    *)
(* drive number and a reserved byte at offsets 36/37                     *)
StdBootCard ==
    LET boot == MkBoot(1, 1, 1, 16, 3 + SmallClusters, 1, <<128, 0>>, BS_FilSysType)
    IN  [s \in {0, 1} |-> IF s = 0 THEN boot ELSE EmptyFat12]

(* the small volume without the two bytes at the end of the boot sector *)
Sig36OnlyCard == [SmallCard EXCEPT ![0] = [@ EXCEPT ![510] = 0, ![511] = 0]]

(* the small volume without the type text *)
NoTagCard ==
    [SmallCard EXCEPT ![0] = [@ EXCEPT ![BS_FilSysType] = 0,
                                       ![BS_FilSysType + 1] = 0,
                                       ![BS_FilSysType + 2] = 0]]

(* a boot sector whose parameter block has no reserved sector *)
BadBpbCard ==
    LET boot == MkBoot(1, 0, 1, 16, 3 + SmallClusters, 1, <<85, 170>>, BS_FilSysType)
    IN  [s \in {0, 1} |-> IF s = 0 THEN boot ELSE EmptyFat12]

ZeroCard == [s \in {0} |-> ZeroSect]

MaxOpsVol == 3
MaxFaultVol == 2

VolP ==
    [cards |-> {SmallCard, StdBootCard, Sig36OnlyCard, NoTagCard, BadBpbCard, ZeroCard,
                PartCard(<<6, 0, 0, 0>>, <<8, 0, 0, 0>>),
                PartCard(<<0, 11, 0, 0>>, <<0, 8, 0, 0>>),
                PartCard(<<131, 6, 0, 0>>, <<1, 8, 0, 0>>),
                PartCard(<<6, 0, 0, 0>>, <<4, 0, 0, 0>>),
                PartCard(<<131, 0, 0, 0>>, <<8, 0, 0, 0>>),
                PartCard(<<6, 11, 0, 0>>, <<4, 8, 0, 0>>)},
     faults |-> (0 - 1)..MaxFaultVol, handles |-> {1}, paths |-> {PathA},
     modes |-> {FA_READ, FA_READ + FA_WRITE + FA_CREATE_ALWAYS},
     mopts |-> {0, 1}, sdok |-> {TRUE, FALSE}, rd |-> {}, wr |-> {}, of |-> {},
     seeds |-> {}, maxops |-> MaxOpsVol, remount |-> TRUE, live |-> FALSE]

InitVol == InitWith(VolP)
NextVol ==
    \/ Mount(VolP)
    \/ Open(VolP)
    \/ OpenDir(VolP)
    \/ GetFree(VolP)
SpecVol == InitVol /\ [][NextVol]_vars

(* ------------------------------------------------------------------ *)
(* Specification: mounting volumes whose cluster counts lie at the     *)
(* limits of the FAT widths, with 16-bit and 32-bit size fields         *)
(* ------------------------------------------------------------------ *)
(* a card that holds only a boot sector: 16-bit total ts16 (0 = unused) *)
(* and 32-bit total ts32                                                 *)
GeoCard(csize, nfats, rootent, ts16, ts32, fatsz) ==
    [s \in {0} |->
        ST_DWORD(MkBoot(csize, 1, nfats, rootent, ts16, fatsz, <<85, 170>>,
                        BS_FilSysType),
                 BPB_TotSec32, ts32)]

MaxOpsGeo == 3

GeoP ==
    [cards |-> {GeoCard(1, 2, 32, 1 + 24 + 2 + 4085, 0, 12),
                GeoCard(1, 2, 32, 1 + 24 + 2 + 4086, 0, 12),
                GeoCard(1, 1, 16, 0, 1 + 256 + 1 + 65525, 256),
                GeoCard(1, 1, 16, 0, 1 + 256 + 1 + 65526, 256),
                GeoCard(8, 1, 16, 1 + 2 + 1 + (8 * 100) + 5, 0, 2),
                GeoCard(2, 1, 16, 1 + 2 + 1 + (2 * 400), 99999, 2),
                Fat32Card,
                PartCard(<<6, 0, 0, 0>>, <<8, 0, 0, 0>>)},
     faults |-> {0 - 1}, handles |-> {1}, paths |-> {PathA}, modes |-> {FA_READ},
     mopts |-> {0, 1}, sdok |-> {TRUE, FALSE}, rd |-> {}, wr |-> {}, of |-> {},
     seeds |-> {}, maxops |-> MaxOpsGeo, remount |-> TRUE, live |-> FALSE]

InitGeo == InitWith(GeoP)
NextGeo ==
    \/ Mount(GeoP)
    \/ Open(GeoP)
    \/ OpenDir(GeoP)
SpecGeo == InitGeo /\ [][NextGeo]_vars

(* ------------------------------------------------------------------ *)
(* Specification: file calls and free-cluster queries on the small      *)
(* volume, no card fault                                                 *)
(* ------------------------------------------------------------------ *)
MaxOpsFree == 5

FreeP ==
    [cards |-> {SmallCard}, faults |-> {0 - 1}, handles |-> {1},
     paths |-> {PathA}, modes |-> {FA_READ, FA_READ + FA_WRITE + FA_CREATE_ALWAYS},
     mopts |-> {1}, sdok |-> {TRUE}, rd |-> {100}, wr |-> {100, 600},
     of |-> {0}, seeds |-> {1}, maxops |-> MaxOpsFree, remount |-> FALSE,
     live |-> FALSE]

InitFree == InitWith(FreeP)
NextFree ==
    \/ Mount(FreeP)
    \/ Open(FreeP)
    \/ Close(FreeP)
    \/ Sync(FreeP)
    \/ Read(FreeP)
    \/ Write(FreeP)
    \/ Seek(FreeP)
    \/ GetFree(FreeP)
SpecFree == InitFree /\ [][NextFree]_vars

(* ------------------------------------------------------------------ *)
(* Specification: opening and creating files in root directories that  *)
(* are empty, partly used, or full, with at most one failing transfer   *)
(* ------------------------------------------------------------------ *)
(* the 11 name bytes of the foreign file in slot i *)
ForeignSfn(i) ==
    [k \in 0..10 |->
        IF k = 0 THEN 70 ELSE IF k = 1 THEN 65 + (i % 16)
        ELSE IF k = 2 THEN 48 + (i \div 16) ELSE 32]

(* the 32 bytes of a root slot of the given kind *)
SlotImage(kind, i) ==
    [k \in 0..(SZ_DIRE - 1) |->
        IF kind = "end" THEN 0
        ELSE IF k = 0 /\ kind = "del" THEN DDEM
        ELSE IF k < 11
        THEN (IF kind = "long" THEN MkSfn(<<76, 79, 78, 71, 78, 65, 77, 69, 46, 84, 88, 84>>)[k]
              ELSE ForeignSfn(i)[k])
        ELSE IF k = DIR_Attr THEN (IF kind = "label" THEN 8 ELSE AM_ARC)
        ELSE 0]

(* the small volume with a root directory of Len(kinds) slots, slot i   *)
(* being of kind kinds[i + 1]                                            *)
DirCard(kinds) ==
    [s \in 0..(1 + (Len(kinds) \div DirPerSect)) |->
        IF s = 0
        THEN MkBoot(1, 1, 1, Len(kinds),
                    2 + (Len(kinds) \div DirPerSect) + SmallClusters, 1,
                    <<85, 170>>, BS_FilSysType)
        ELSE IF s = 1 THEN EmptyFat12
        ELSE [x \in 0..(SS - 1) |->
                 SlotImage(kinds[((s - 2) * DirPerSect) + (x \div SZ_DIRE) + 1],
                           ((s - 2) * DirPerSect) + (x \div SZ_DIRE))[x % SZ_DIRE]]]

MixedRoot == [i \in 1..16 |-> IF i = 1 THEN "live" ELSE IF i = 2 THEN "del"
                               ELSE IF i = 3 THEN "long" ELSE "end"]
FullRoot == [i \in 1..16 |-> "live"]
HoleRoot == [i \in 1..32 |-> IF i = 21 THEN "del" ELSE "live"]
FullRoot2 == [i \in 1..32 |-> "live"]

MaxOpsDir == 4

DirP ==
    [cards |-> {SmallCard, DirCard(MixedRoot), DirCard(FullRoot), DirCard(HoleRoot),
                DirCard(FullRoot2)},
     faults |-> {0 - 1, 1, 2}, handles |-> {1},
     paths |-> {PathA, PathTest, PathLongBase},
     modes |-> {FA_READ, FA_READ + FA_WRITE + FA_CREATE_ALWAYS,
                FA_WRITE + FA_CREATE_NEW, FA_WRITE + FA_OPEN_ALWAYS},
     mopts |-> {1}, sdok |-> {TRUE}, rd |-> {}, wr |-> {}, of |-> {}, seeds |-> {},
     maxops |-> MaxOpsDir, remount |-> FALSE, live |-> FALSE]

InitDir == InitWith(DirP)
NextDir ==
    \/ Mount(DirP)
    \/ Open(DirP)
    \/ Close(DirP)
SpecDir == InitDir /\ [][NextDir]_vars

(* ------------------------------------------------------------------ *)
(* Specification: read-only and read-write handles on a volume that    *)
(* holds a file, with at most one failing transfer                      *)
(* ------------------------------------------------------------------ *)
MaxOpsRo == 4

RoP ==
    [cards |-> {FileCard}, faults |-> {0 - 1, 2, 3}, handles |-> {1},
     paths |-> {PathTest}, modes |-> {FA_READ, FA_READ + FA_WRITE},
     mopts |-> {1}, sdok |-> {TRUE}, rd |-> {100}, wr |-> {0, 100, 600},
     of |-> {0, 1000}, seeds |-> {1}, maxops |-> MaxOpsRo, remount |-> FALSE,
     live |-> FALSE]

InitRo == InitWith(RoP)
NextRo == NextWith(RoP)
SpecRo == InitRo /\ [][NextRo]_vars

(* ------------------------------------------------------------------ *)
(* Specification: iterating over root directories with live, deleted,  *)
(* label and end slots while files are created, with at most one        *)
(* failing transfer                                                      *)
(* ------------------------------------------------------------------ *)
IterRoot ==
    [i \in 1..32 |->
        IF i \in {1, 4, 18} THEN "live" ELSE IF i \in {3, 17} THEN "label"
        ELSE IF i < 18 THEN "del" ELSE "end"]
LastRoot == [i \in 1..16 |-> IF i = 16 THEN "live" ELSE "del"]

(* 32-bit FAT, 1 sector per cluster: the root directory is cluster 2    *)
(* alone, all its 16 slots deleted; cluster 3 is the only cluster of a   *)
(* file whose data are 32 letters A                                      *)
Fat32DirCard ==
    [s \in {0, 32, 32 + 43605, 32 + 43605 + 1} |->
        IF s = 0 THEN MkBoot32(1, 32, 1, 32 + 43605 + 70000, 43605, 2)
        ELSE IF s = 32
        THEN [i \in 0..(SS - 1) |->
                 IF i = 0 THEN 248 ELSE IF i \in {3, 7, 11, 15} THEN 15
                 ELSE IF i < 16 THEN 255 ELSE 0]
        ELSE IF s = 32 + 43605
        THEN [x \in 0..(SS - 1) |-> SlotImage("del", x \div SZ_DIRE)[x % SZ_DIRE]]
        ELSE [x \in 0..(SS - 1) |-> IF x < SZ_DIRE THEN 65 ELSE 0]]

MaxOpsIter == 7

IterP ==
    [cards |-> {SmallCard, DirCard(MixedRoot), DirCard(IterRoot), DirCard(LastRoot),
                Fat32DirCard},
     faults |-> {0 - 1, 2}, handles |-> {1}, paths |-> {PathA},
     modes |-> {FA_WRITE + FA_CREATE_NEW},
     mopts |-> {1}, sdok |-> {TRUE}, rd |-> {}, wr |-> {}, of |-> {}, seeds |-> {},
     maxops |-> MaxOpsIter, remount |-> FALSE, live |-> FALSE]

InitIter == InitWith(IterP)
NextIter ==
    \/ Mount(IterP)
    \/ Open(IterP)
    \/ OpenDir(IterP)
    \/ ReadDir(IterP)
    \/ RewindDir(IterP)
    \/ CloseDir(IterP)
SpecIter == InitIter /\ [][NextIter]_vars

(* ------------------------------------------------------------------ *)
(* Specification: two handles on two files of the 16-bit-FAT volume,   *)
(* their calls interleaved in any order and recorded, no card fault     *)
(* ------------------------------------------------------------------ *)
MaxOpsPair == 6
PathB == <<48, 58, 66, 46, 84, 88, 84>>

PairP ==
    [cards |-> {Fat16Card}, faults |-> {0 - 1}, handles |-> {1, 2},
     paths |-> {PathTest, PathB}, modes |-> {FA_READ + FA_WRITE + FA_CREATE_ALWAYS},
     mopts |-> {1}, sdok |-> {TRUE}, rd |-> {100}, wr |-> {100, 600},
     of |-> {0}, seeds |-> {1}, maxops |-> MaxOpsPair, remount |-> FALSE,
     live |-> TRUE]

InitPair ==
    /\ fs = NullFs
    /\ FatFs = 0
    /\ Fsid = 0
    /\ Stat = STA_NOINIT
    /\ dev \in PairP.cards
    /\ fault \in PairP.faults
    /\ fil = [h \in PairP.handles |-> NullFil]
    /\ dp = NullDir
    /\ last = NoCall
    /\ mon = [h \in PairP.handles |-> [MonIdle EXCEPT !.rec = TRUE]]
    /\ step = 0
    /\ sched = SchedInit
    /\ slog = NoSchedCall
NextPair == NextWith(PairP)
SpecPair == InitPair /\ [][NextPair]_vars

(* ------------------------------------------------------------------ *)
(* What is on the card and what the volume shows                        *)
(* ------------------------------------------------------------------ *)
(* the n bytes of a source buffer *)
Expected(n, seed) == [j \in 1..n |-> WBuf(seed, j - 1)]

(* a sector as the engine sees it: the window when it holds the sector *)
ViewSect(f, d, s) == IF f.winsect = s THEN f.win ELSE DevSect(d, s)

(* FAT entry c decoded from sector images given by sec(_) *)
FatDecode(f, sec(_), c) ==
    IF f.fs_type = FS_FAT12
    THEN LET bc == c + (c \div 2)
             wc == sec(f.fatbase + (bc \div SS))[bc % SS]
                   + (sec(f.fatbase + ((bc + 1) \div SS))[(bc + 1) % SS] * 256)
         IN  IF c % 2 = 1 THEN wc \div 16 ELSE wc % 4096
    ELSE IF f.fs_type = FS_FAT16
    THEN LD_WORD(sec(f.fatbase + (c \div (SS \div 2))), (c * 2) % SS)
    ELSE LD_DWORD(sec(f.fatbase + (c \div (SS \div 4))), (c * 4) % SS) % 268435456

FatView(f, d, c) == LET sec(s) == ViewSect(f, d, s) IN FatDecode(f, sec, c)
FatOnCard(f, d, c) == LET sec(s) == DevSect(d, s) IN FatDecode(f, sec, c)

IsEoc(f, v) ==
    IF f.fs_type = FS_FAT12 THEN v >= 4088
    ELSE IF f.fs_type = FS_FAT16 THEN v >= 65528
    ELSE v >= 268435448

(* the clusters of the chain starting at c, at most k of them *)
RECURSIVE ChainView(_, _, _, _)
ChainView(f, d, c, k) ==
    IF k = 0 \/ c < 2 \/ c >= f.n_fatent THEN <<>>
    ELSE <<c>> \o ChainView(f, d, FatView(f, d, c), k - 1)

RECURSIVE ChainOnCard(_, _, _, _)
ChainOnCard(f, d, c, k) ==
    IF k = 0 \/ c < 2 \/ c >= f.n_fatent THEN <<>>
    ELSE <<c>> \o ChainOnCard(f, d, FatOnCard(f, d, c), k - 1)

ClusterBytes(f) == f.csize * SS
ClustersFor(f, n) == (n + ClusterBytes(f) - 1) \div ClusterBytes(f)

(* size and start cluster of the directory entry at (sect, off) on the card *)
DirSizeOnCard(d, sect, off) == LD_DWORD(DevSect(d, sect), off + DIR_FileSize)
DirClustOnCard(d, sect, off) ==
    (LD_WORD(DevSect(d, sect), off + DIR_FstClusHI) * 65536)
    + LD_WORD(DevSect(d, sect), off + DIR_FstClusLO)

(* ------------------------------------------------------------------ *)
(* C1: writing N bytes to a newly created file in one call at offset 0 *)
(* and reading N bytes from offset 0, after a seek to 0 or after close *)
(* and reopen, returns OK and exactly the N bytes written.             *)
(* ------------------------------------------------------------------ *)
C1_WriteThenRead ==
    \A h \in DOMAIN mon :
        (last.op = "f_read" /\ last.h = h /\ mon[h].st \in {"readback", "reread"})
        => /\ mon[h].wres = FR_OK
           /\ last.res = FR_OK
           /\ last.data = Expected(mon[h].n, mon[h].seed)

(* ------------------------------------------------------------------ *)
(* C2: after create, one write of N bytes returning OK and a close      *)
(* returning OK, opening the same name again gives a handle of size N, *)
(* the directory entry on the card has size N, and reading N bytes     *)
(* returns the bytes written.                                          *)
(* ------------------------------------------------------------------ *)
C2_Persisted(h) ==
    mon[h].wres = FR_OK /\ mon[h].wcnt = mon[h].n /\ mon[h].cres = FR_OK

C2_CloseReopenRead ==
    \A h \in DOMAIN mon :
        /\ (last.op = "f_open" /\ last.h = h /\ mon[h].st = "reopened"
            /\ C2_Persisted(h))
           => /\ fil[h].obj_size = mon[h].n
              /\ DirSizeOnCard(dev, fil[h].dir_sect, fil[h].dir_ptr) = mon[h].n
        /\ (last.op = "f_read" /\ last.h = h /\ mon[h].st = "reread"
            /\ C2_Persisted(h))
           => /\ last.res = FR_OK
              /\ last.data = Expected(mon[h].n, mon[h].seed)

C2_Witness ==
    /\ last.op = "f_read" /\ last.h = 1 /\ mon[1].st = "reread" /\ C2_Persisted(1)
    /\ mon[1].n = 1000 /\ last.cnt = 1000
    /\ fs.fs_type = FS_FAT16 /\ fs.csize = 4
    /\ DirSizeOnCard(dev, fil[1].dir_sect, fil[1].dir_ptr) = 1000

(* ------------------------------------------------------------------ *)
(* C3: after a write of N bytes to a new empty file the write has       *)
(* returned OK and the chain from the start cluster has exactly        *)
(* ceil(N / cluster_bytes) clusters, the last entry being the          *)
(* end-of-chain marker.                                                *)
(* ------------------------------------------------------------------ *)
C3_ChainLength ==
    \A h \in DOMAIN mon :
        (last.op = "f_write" /\ last.h = h /\ mon[h].st = "written")
        => LET need == ClustersFor(fs, mon[h].n)
               ch == ChainView(fs, dev, fil[h].sclust, need + 1)
           IN  /\ last.res = FR_OK
               /\ Len(ch) = need
               /\ need > 0 => IsEoc(fs, FatView(fs, dev, ch[need]))

(* ------------------------------------------------------------------ *)
(* C4: between calls every open handle has fptr <= size, whatever the  *)
(* access mode and whatever open, read, write and seek calls were made. *)
(* ------------------------------------------------------------------ *)
C4_FptrWithinSize ==
    \A h \in DOMAIN fil :
        fil[h].fs # 0 => fil[h].fptr <= fil[h].obj_size

(* ------------------------------------------------------------------ *)
(* C5: after a write call that returns OK the size of the handle is    *)
(* max(size before the call, fptr after the call), and it is never     *)
(* smaller than before.                                                 *)
(* ------------------------------------------------------------------ *)
C5_SizeAfterWrite ==
    \A h \in DOMAIN fil :
        (last.op = "f_write" /\ last.h = h /\ last.res = FR_OK /\ ~last.hung)
        => /\ fil[h].obj_size = IF last.pre.obj_size > fil[h].fptr
                                THEN last.pre.obj_size ELSE fil[h].fptr
           /\ fil[h].obj_size >= last.pre.obj_size

(* ------------------------------------------------------------------ *)
(* C6: once a read or write on a handle has failed with a device       *)
(* transfer failure, every later read, write, seek and sync on the     *)
(* handle fails without any device transfer and leaves the volume as   *)
(* it is, until the handle is opened again.                             *)
(* ------------------------------------------------------------------ *)
C6_LatchedCallsFailFast ==
    [][ \A h \in DOMAIN mon :
          (/\ mon[h].devfail
           /\ step' = step + 1
           /\ last'.h = h
           /\ last'.op \in {"f_read", "f_write", "f_lseek", "f_sync"})
          => /\ last'.res # FR_OK
             /\ last'.n = 0
             /\ dev' = dev
             /\ fs' = fs ]_vars

(* ------------------------------------------------------------------ *)
(* C7: a device transfer that fails inside a call makes the call       *)
(* return a non-OK result and issue no further transfer.               *)
(* ------------------------------------------------------------------ *)
C7_FailedTransferAborts ==
    last.failed => (last.res # FR_OK /\ last.nAfter = 0)

(* ------------------------------------------------------------------ *)
(* C8: a write call that fails after k bytes of the request have been  *)
(* transferred returns the count k and leaves fptr advanced by k.      *)
(* ------------------------------------------------------------------ *)
C8_PartialWriteCount ==
    \A h \in DOMAIN fil :
        (last.op = "f_write" /\ last.h = h /\ last.res # FR_OK)
        => /\ last.cnt = last.moved
           /\ fil[h].fptr = last.pre.fptr + last.moved

(* a write of more than one sector whose second transfer fails on the card *)
C8_Witness ==
    /\ last.op = "f_write" /\ last.h = 1 /\ last.res = FR_DISK_ERR /\ last.failed
    /\ last.moved = SS /\ last.cnt = SS /\ last.arg > SS
    /\ fil[1].fptr = last.pre.fptr + SS
    /\ fil[1].err # 0

(* ------------------------------------------------------------------ *)
(* C9: after sync or close returns OK the window is clean, the handle  *)
(* is not marked modified, the card holds every byte written through   *)
(* the handle, and the directory entry on the card at the recorded     *)
(* sector and offset has the size and start cluster of the handle.     *)
(* ------------------------------------------------------------------ *)
(* the byte the latest of the writes ws[1..i] put at file offset o, -1 if none *)
RECURSIVE WrittenByte(_, _, _)
WrittenByte(ws, o, i) ==
    IF i = 0 THEN 0 - 1
    ELSE IF ws[i].at <= o /\ o < ws[i].at + ws[i].n THEN WBuf(ws[i].seed, o - ws[i].at)
    ELSE WrittenByte(ws, o, i - 1)

(* one past the highest file offset written by ws *)
RECURSIVE WrittenEnd(_, _)
WrittenEnd(ws, i) ==
    IF i = 0 THEN 0
    ELSE IF ws[i].at + ws[i].n > WrittenEnd(ws, i - 1) THEN ws[i].at + ws[i].n
    ELSE WrittenEnd(ws, i - 1)

(* the byte at file offset o of the file whose cluster chain is ch, -2 if *)
(* the chain does not reach that far                                      *)
FileByteOnCard(f, d, ch, o) ==
    IF o \div ClusterBytes(f) >= Len(ch) THEN 0 - 2
    ELSE DevSect(d, clst2sect(f, ch[(o \div ClusterBytes(f)) + 1])
                    + ((o % ClusterBytes(f)) \div SS))[o % SS]

CardHoldsWrites(f, d, fp, ws) ==
    \A ch \in {ChainOnCard(f, d, fp.sclust, f.n_fatent)} :
        \A o \in 0..(WrittenEnd(ws, Len(ws)) - 1) :
            WrittenByte(ws, o, Len(ws)) >= 0
            => FileByteOnCard(f, d, ch, o) = WrittenByte(ws, o, Len(ws))

C9_SyncMakesDurable ==
    \A h \in DOMAIN fil :
        (last.op \in {"f_sync", "f_close"} /\ last.h = h /\ last.res = FR_OK)
        => /\ fs.wflag = 0
           /\ ~BitSet(fil[h].flag, FA_MODIFIED)
           /\ DirSizeOnCard(dev, fil[h].dir_sect, fil[h].dir_ptr) = fil[h].obj_size
           /\ DirClustOnCard(dev, fil[h].dir_sect, fil[h].dir_ptr) = fil[h].sclust
           /\ CardHoldsWrites(fs, dev, fil[h], mon[h].writes)

(* ------------------------------------------------------------------ *)
(* C10: the window is never pointed at another sector, nor marked      *)
(* clean, while it holds modifications that have not been written to   *)
(* the card at its sector: no call drops a modification made through   *)
(* the window.                                                          *)
(* ------------------------------------------------------------------ *)
C10_NoDirtyWindowDropped == ~last.lost

(* ------------------------------------------------------------------ *)
(* FAT entries and cluster mapping                                      *)
(* ------------------------------------------------------------------ *)
(* c is a cluster number of the mounted volume *)
ValidClst(f, c) == c >= 2 /\ ULt(c, f.n_fatent)

(* the stored 32 bits of the entry of cluster c of a 32-bit FAT *)
RawFat32(f, d, c) ==
    LD_DWORD(ViewSect(f, d, f.fatbase + (c \div (SS \div 4))), (c * 4) % SS)
UpperBits(raw) == raw - (raw % 268435456)

(* C11: for each FAT width, every valid cluster c and every value v that *)
(* fits the width, get_fat(c) after put_fat(c, v) returns v, also for a  *)
(* 12-bit entry whose two bytes lie in two sectors.                       *)
C11_PutThenGet ==
    (last.op = "put_fat" /\ ValidClst(fs, last.arg))
    => get_fat(Ctx, last.arg).val = last.seed

C11_Witness ==
    /\ last.op = "put_fat" /\ last.res = FR_OK
    /\ fs.fs_type = FS_FAT12 /\ last.arg = 341 /\ last.seed = 2652
    /\ last.n >= 2
    /\ get_fat(Ctx, 341).val = 2652

(* C12: put_fat(c, v) changes the entry of no other cluster d, as read   *)
(* by get_fat before and after, and keeps the upper 4 bits of every      *)
(* stored 32-bit entry.                                                   *)
C12_PutFatFrame ==
    [][ (last'.op = "put_fat" /\ step' = step + 1)
        => \A d \in ProbeClusters :
             ValidClst(fs, d)
             => /\ d # last'.arg
                     => get_fat(MkK(fs', dev', 0 - 1, Stat'), d).val
                        = get_fat(Ctx, d).val
                /\ fs.fs_type = FS_FAT32
                     => UpperBits(RawFat32(fs', dev', d))
                        = UpperBits(RawFat32(fs, dev, d)) ]_vars

C12_Witness ==
    /\ last.op = "put_fat" /\ last.res = FR_OK
    /\ fs.fs_type = FS_FAT12 /\ last.arg = 341 /\ last.seed = 4095
    /\ get_fat(Ctx, 340).val = 2652

C14_SeekClamps ==
    \A h \in DOMAIN fil :
        (/\ last.op = "f_lseek" /\ last.h = h
         /\ last.pre.fs # 0 /\ last.pre.err = 0
         /\ ~BitSet(last.pre.flag, FA_WRITE)
         /\ last.arg > last.pre.obj_size)
        => /\ last.res = FR_OK
           /\ fil[h].fptr = last.pre.obj_size

(* ------------------------------------------------------------------ *)
(* File names                                                           *)
(* ------------------------------------------------------------------ *)
(* the name part of a path: what follows the drive prefix and an        *)
(* optional separator                                                    *)
NamePart(path) ==
    SubSeq(path, IF Ch(path, 2) = 47 \/ Ch(path, 2) = 92 THEN 4 ELSE 3, Len(path))

(* number of characters before the first '.', and after it *)
BaseLen(nm) ==
    IF \E j \in 1..Len(nm) : nm[j] = 46
    THEN (CHOOSE j \in 1..Len(nm) : nm[j] = 46 /\ \A i \in 1..(j - 1) : nm[i] # 46) - 1
    ELSE Len(nm)
ExtLen(nm) == IF BaseLen(nm) < Len(nm) THEN Len(nm) - BaseLen(nm) - 1 ELSE 0
TooLong(path) == BaseLen(NamePart(path)) > 8 \/ ExtLen(NamePart(path)) > 3

(* upper-case form of a byte, and the 11 bytes of a name within 8.3 *)
Fold(c) == IF c \in 97..122 THEN c - 32 ELSE c
FoldedName(path) ==
    [k \in 0..10 |->
        IF k < 8
        THEN (IF k < BaseLen(NamePart(path)) THEN Fold(NamePart(path)[k + 1]) ELSE 32)
        ELSE (IF k - 8 < ExtLen(NamePart(path))
              THEN Fold(NamePart(path)[BaseLen(NamePart(path)) + 2 + (k - 8)])
              ELSE 32)]

(* the 11 name bytes of root entry i as the volume shows them, folded *)
RootName(f, d, i) ==
    [k \in 0..10 |->
        Fold(ViewSect(f, d, RootSect(f) + (i \div DirPerSect))[EntOff(i) + k])]
LiveEntry(f, d, i) ==
    ViewSect(f, d, RootSect(f) + (i \div DirPerSect))[EntOff(i)] \notin {0, DDEM}
EntriesNamed(f, d, nm) ==
    {i \in 0..(f.n_rootdir - 1) : LiveEntry(f, d, i) /\ RootName(f, d, i) = nm}

(* C15: a name whose base is longer than 8 characters or whose extension *)
(* is longer than 3 is rejected: open with it fails, matches no entry     *)
(* and creates none.                                                      *)
C15_LongNameRejected ==
    \A h \in DOMAIN fil :
        (last.op = "f_open" /\ last.h = h /\ TooLong(mon[h].path))
        => last.res # FR_OK /\ last.how = "none"

HasFatTag(sect, o) == sect[o] = 70 /\ sect[o + 1] = 65 /\ sect[o + 2] = 84
IsBootSector(sect) ==
    /\ sect[510] = 85 /\ sect[511] = 170
    /\ (HasFatTag(sect, 54) \/ HasFatTag(sect, 82))

(* the parameter block of the sector passes the checks of f_mount *)
ParamsOk(sect, bsect) ==
    ParseBPB(MkK(NullFs, dev, 0 - 1, 0), bsect, 0, ReadBPB(sect),
             Layout(ReadBPB(sect), bsect)).K.res = FR_OK

(* the last call was a mount with immediate parsing on a ready card,    *)
(* no transfer of which failed                                           *)
MountedNowClean ==
    /\ last.op = "f_mount" /\ last.arg = 1
    /\ ~BitSet(Stat, STA_NOINIT) /\ ~last.failed

(* C17: a sector is accepted as a FAT boot sector only when it has the  *)
(* word 0xAA55 at 0x1FE and a FAT type text, and a standard boot sector  *)
(* in sector 0 with a valid parameter block is mounted with OK.          *)
C17_BootSectorAccepted ==
    MountedNowClean
    => /\ last.res = FR_OK => IsBootSector(DevSect(dev, fs.volbase))
       /\ (IsBootSector(DevSect(dev, 0)) /\ ParamsOk(DevSect(dev, 0), 0))
            => last.res = FR_OK

(* the partition entries of a table sector with a FAT type byte, and the *)
(* start sector of the first of them (0 if none)                         *)
FatEntries(tab) == {i \in 0..3 : IsFatPartType(tab[MBR_Table + (i * 16) + 4])}
FirstFatStart(tab) ==
    IF FatEntries(tab) = {} THEN 0
    ELSE LD_DWORD(tab, MBR_Table
                       + ((CHOOSE i \in FatEntries(tab) :
                              \A j \in FatEntries(tab) : i <= j) * 16) + 8)

(* C18: when sector 0 is not a FAT boot sector, mount takes the first of *)
(* the four partition entries with a FAT type, whatever precedes it, and *)
(* mounts the volume that starts there; it returns NO_FILESYSTEM when    *)
(* there is no such entry or its first sector is no valid boot sector.   *)
C18_PartitionFallback ==
    (MountedNowClean /\ ~IsBootSector(DevSect(dev, 0)))
    => IF /\ FirstFatStart(DevSect(dev, 0)) # 0
          /\ IsBootSector(DevSect(dev, FirstFatStart(DevSect(dev, 0))))
          /\ ParamsOk(DevSect(dev, FirstFatStart(DevSect(dev, 0))),
                      FirstFatStart(DevSect(dev, 0)))
       THEN last.res = FR_OK /\ fs.volbase = FirstFatStart(DevSect(dev, 0))
       ELSE last.res = FR_NO_FILESYSTEM

C21_DeferredMount ==
    [][ (/\ last.op = "f_mount" /\ last.arg = 0 /\ last.res = FR_OK /\ FatFs = 1
         /\ DevSect(dev, 0) = SmallCard[0] /\ fault = 0 - 1
         /\ last'.op \in {"f_open", "f_opendir", "f_getfree"}
         /\ step' = step + 1)
        => (fs'.fs_type # 0 /\ last'.res # FR_NOT_ENABLED) ]_vars

(* the cluster count the parameter block b stands for: 16-bit FAT size  *)
(* and total unless zero, else the 32-bit fields                         *)
BpbFatSize(b) ==
    IF LD_WORD(b, BPB_FATSz16) # 0 THEN LD_WORD(b, BPB_FATSz16) ELSE LD_DWORD(b, BPB_FATSz32)
BpbTotal(b) ==
    IF LD_WORD(b, BPB_TotSec16) # 0 THEN LD_WORD(b, BPB_TotSec16)
    ELSE LD_DWORD(b, BPB_TotSec32)
BpbClusters(b) ==
    (BpbTotal(b)
     - (LD_WORD(b, BPB_RsvdSecCnt) + (BpbFatSize(b) * b[BPB_NumFATs])
        + ((LD_WORD(b, BPB_RootEntCnt) * SZ_DIRE) \div SS)))
    \div b[BPB_SecPerClus]

(* C22: on a successful mount n_fatent is (total - (reserved + FAT size  *)
(* * FAT count + root sectors)) / cluster size + 2, and the width is 12  *)
(* bits up to 4085 clusters, 16 bits up to 65525, 32 bits above.         *)
C22_ClusterCount ==
    (last.op = "f_mount" /\ last.arg = 1 /\ last.res = FR_OK)
    => /\ fs.n_fatent = BpbClusters(DevSect(dev, fs.volbase)) + 2
       /\ fs.fs_type = (IF fs.n_fatent - 2 <= 4085 THEN FS_FAT12
                        ELSE IF fs.n_fatent - 2 <= 65525 THEN FS_FAT16
                        ELSE FS_FAT32)

C22_Witness ==
    /\ last.op = "f_mount" /\ last.arg = 1 /\ last.res = FR_OK
    /\ fs.n_fatent = 65527 /\ fs.fs_type = FS_FAT16
    /\ LD_WORD(DevSect(dev, 0), BPB_TotSec16) = 0

(* the number of FAT entries in [2, n_fatent) that the volume shows as 0 *)
ZeroEntries(f, d) == Cardinality({c \in 2..(f.n_fatent - 1) : FatView(f, d, c) = 0})

(* C23: every successful free-cluster query returns the number of FAT    *)
(* entries in [2, n_fatent) that are zero at that moment, whatever file   *)
(* operations came before it.                                             *)
C23_FreeCountCurrent ==
    (last.op = "f_getfree" /\ last.res = FR_OK) => last.cnt = ZeroEntries(fs, dev)

(* the cluster a next-fit scan of the FAT shown by the volume selects:  *)
(* the lowest free one at or above the hint (above 2 when the hint is    *)
(* no valid cluster), else the lowest free one                           *)
FreeClusters(f, d) == {c \in 2..(f.n_fatent - 1) : FatView(f, d, c) = 0}
HintStart(f) == IF f.last_clst >= 2 /\ f.last_clst < f.n_fatent THEN f.last_clst ELSE 2
Lowest(S) == CHOOSE c \in S : \A e \in S : c <= e
NextFit(f, d) ==
    IF \E c \in FreeClusters(f, d) : c >= HintStart(f)
    THEN Lowest({c \in FreeClusters(f, d) : c >= HintStart(f)})
    ELSE Lowest(FreeClusters(f, d))

(* C24: a write that gives an empty file its start cluster takes the      *)
(* first free cluster found scanning upward from the hint (from 2 when    *)
(* the hint is no valid cluster), continuing at 2 after the last          *)
(* cluster; when the write stays inside that cluster, the cluster is      *)
(* marked end-of-chain and is the new hint.                                *)
C24_FirstAllocation ==
    [][ \A h \in DOMAIN fil :
          (/\ last'.op = "f_write" /\ last'.h = h /\ step' = step + 1
           /\ fil[h].fptr = 0 /\ fil[h].sclust = 0 /\ fil'[h].sclust # 0)
          => /\ fil'[h].sclust = NextFit(fs, dev)
             /\ (last'.arg <= fs.csize * SS
                 => /\ IsEoc(fs', FatView(fs', dev', fil'[h].sclust))
                    /\ fs'.last_clst = fil'[h].sclust) ]_vars

(* ------------------------------------------------------------------ *)
(* Root directory                                                       *)
(* ------------------------------------------------------------------ *)
(* the 32 bytes of root slot i as the volume shows them, and as the     *)
(* card holds them                                                       *)
Slot(f, d, i) ==
    [k \in 0..(SZ_DIRE - 1) |->
        ViewSect(f, d, RootSect(f) + (i \div DirPerSect))[EntOff(i) + k]]
SlotOnCard(f, d, i) ==
    [k \in 0..(SZ_DIRE - 1) |->
        DevSect(d, RootSect(f) + (i \div DirPerSect))[EntOff(i) + k]]
RootView(f, d) == [i \in 0..(f.n_rootdir - 1) |-> Slot(f, d, i)]
FreeSlots(f, d) == {i \in 0..(f.n_rootdir - 1) : Slot(f, d, i)[0] \in {0, DDEM}}
Creates(mode) ==
    BitSet(mode, FA_CREATE_ALWAYS) \/ BitSet(mode, FA_CREATE_NEW)
    \/ BitSet(mode, FA_OPEN_ALWAYS)

(* no live entry of the root carries the name of the path: none can      *)
(* carry a name that does not fit 8.3                                     *)
NoLiveEntry(f, d, path) == TooLong(path) \/ EntriesNamed(f, d, FoldedName(path)) = {}

(* C25: an open, no transfer of which fails, of a name that no live      *)
(* entry of a FAT12/16 root carries returns NO_FILE and leaves the        *)
(* directory as it was when the mode has no create flag; with one it      *)
(* creates the entry and returns OK, or returns DENIED and leaves the     *)
(* directory as it was when the root has no free or deleted slot.         *)
C25_OpenMiss ==
    [][ \A h \in DOMAIN fil :
          (/\ last'.op = "f_open" /\ last'.h = h /\ step' = step + 1
           /\ FatFs = 1 /\ fs.fs_type \in {FS_FAT12, FS_FAT16} /\ ~last'.failed
           /\ NoLiveEntry(fs, dev, mon'[h].path))
          => IF ~Creates(last'.arg)
             THEN last'.res = FR_NO_FILE /\ RootView(fs', dev') = RootView(fs, dev)
             ELSE IF FreeSlots(fs, dev) # {}
             THEN /\ last'.res = FR_OK
                  /\ FreeSlots(fs', dev') # FreeSlots(fs, dev)
                  /\ (~TooLong(mon'[h].path)
                      => EntriesNamed(fs', dev', FoldedName(mon'[h].path)) # {})
             ELSE last'.res = FR_DENIED /\ RootView(fs', dev') = RootView(fs, dev) ]_vars

(* C26: an open that creates a file writes the entry into the first      *)
(* slot, in scan order, whose first byte is 0x00 or 0xE5: the 8.3 name   *)
(* in upper case, the archive attribute, start cluster 0, size 0 and the  *)
(* timestamp; the card holds the entry when open returns and every other  *)
(* slot is as before, in the directory the volume shows and on the card.  *)
C26_CreateEntry ==
    [][ \A h \in DOMAIN fil :
          (/\ last'.op = "f_open" /\ last'.h = h /\ step' = step + 1
           /\ last'.res = FR_OK /\ last'.how = "created")
          => /\ FreeSlots(fs, dev) # {}
             /\ \E i \in {Lowest(FreeSlots(fs, dev))} :
                   /\ (~TooLong(mon'[h].path)
                       => \A k \in 0..10 :
                             Slot(fs', dev', i)[k] = FoldedName(mon'[h].path)[k])
                   /\ Slot(fs', dev', i)[0] \notin {0, DDEM}
                   /\ Slot(fs', dev', i)[DIR_Attr] = AM_ARC
                   /\ LD_WORD(Slot(fs', dev', i), DIR_FstClusLO) = 0
                   /\ LD_WORD(Slot(fs', dev', i), DIR_FstClusHI) = 0
                   /\ LD_DWORD(Slot(fs', dev', i), DIR_FileSize) = 0
                   /\ LD_DWORD(Slot(fs', dev', i), DIR_WrtTime) = get_fattime
                   /\ SlotOnCard(fs', dev', i) = Slot(fs', dev', i)
                   /\ \A j \in 0..(fs.n_rootdir - 1) :
                         j # i => /\ Slot(fs', dev', j) = Slot(fs, dev, j)
                                  /\ SlotOnCard(fs', dev', j) = SlotOnCard(fs, dev, j) ]_vars

(* ------------------------------------------------------------------ *)
(* Access mode and detached handles                                     *)
(* ------------------------------------------------------------------ *)
(* the step is a write call on handle h, open without write access *)
ReadOnlyWrite(h) ==
    /\ last'.op = "f_write" /\ last'.h = h /\ step' = step + 1
    /\ fil[h].fs # 0 /\ ~BitSet(fil[h].flag, FA_WRITE)
NothingChanged(h) ==
    /\ last'.cnt = 0 /\ fil'[h] = fil[h] /\ fs' = fs /\ dev' = dev

(* C27 as stated: a write call on a handle opened without write access   *)
(* returns DENIED with a count of 0 and changes neither the handle nor    *)
(* the volume.                                                            *)
C27_ReadOnlyWriteDenied ==
    [][ \A h \in DOMAIN fil :
          ReadOnlyWrite(h) => (last'.res = FR_DENIED /\ NothingChanged(h)) ]_vars

(* C27, amended: a write call on a handle opened without write access    *)
(* changes neither the handle nor the volume and has a count of 0; it     *)
(* returns DENIED when the handle has no latched error and INT_ERR when   *)
(* it has one.                                                            *)
C27_ReadOnlyWriteRefused ==
    [][ \A h \in DOMAIN fil :
          ReadOnlyWrite(h)
          => /\ NothingChanged(h)
             /\ last'.res = (IF fil[h].err = 0 THEN FR_DENIED ELSE FR_INT_ERR) ]_vars

C27_Witness ==
    /\ last.op = "f_write" /\ last.res = FR_DENIED /\ last.arg = 600
    /\ last.pre.fs # 0 /\ last.pre.flag = FA_READ /\ last.pre.err = 0
    /\ fil[last.h] = last.pre

HandleOps == {"f_read", "f_write", "f_lseek", "f_sync", "f_close"}

(* C28: a close call leaves the handle detached whatever it returns; a   *)
(* detached handle stays detached until an open call on it, and every     *)
(* read, write, seek, sync or close call on it returns INVALID_OBJECT,    *)
(* issues no transfer and changes neither the volume nor the card.        *)
C28_ClosedIsDetached ==
    [][ \A h \in DOMAIN fil :
          /\ (last'.op = "f_close" /\ last'.h = h /\ step' = step + 1)
             => fil'[h].fs = 0
          /\ (fil[h].fs = 0 /\ ~(last'.op = "f_open" /\ last'.h = h))
             => fil'[h] = fil[h]
          /\ (fil[h].fs = 0 /\ last'.op \in HandleOps /\ last'.h = h
              /\ step' = step + 1)
             => /\ last'.res = FR_INVALID_OBJECT
                /\ last'.n = 0 /\ last'.cnt = 0
                /\ fs' = fs /\ dev' = dev /\ fault' = fault ]_vars

(* a read on a handle whose close failed with a disk error *)
C28_Witness ==
    /\ last.op = "f_read" /\ last.res = FR_INVALID_OBJECT
    /\ mon[last.h].cres = FR_DISK_ERR
    /\ last.pre.fs = 0 /\ BitSet(last.pre.flag, FA_WRITE) /\ last.pre.obj_size > 0

(* ------------------------------------------------------------------ *)
(* Directory iteration                                                  *)
(* ------------------------------------------------------------------ *)
(* the root directory: a fixed region, or on a 32-bit FAT the chain of   *)
(* clusters that starts at dirbase (followed over at most MaxDirChain    *)
(* clusters); the sector of its slot i and the 32 bytes of the slot      *)
MaxDirChain == 4
DirChain(f, d) == ChainView(f, d, f.dirbase, MaxDirChain)
NSlots(f, d) ==
    IF f.fs_type = FS_FAT32 THEN Len(DirChain(f, d)) * f.csize * DirPerSect
    ELSE f.n_rootdir
DirSectOf(f, d, i) ==
    IF f.fs_type = FS_FAT32
    THEN clst2sect(f, DirChain(f, d)[(i \div (f.csize * DirPerSect)) + 1])
         + ((i \div DirPerSect) % f.csize)
    ELSE f.dirbase + (i \div DirPerSect)
DirSlot(f, d, i) ==
    [k \in 0..(SZ_DIRE - 1) |-> ViewSect(f, d, DirSectOf(f, d, i))[EntOff(i) + k]]

(* slot i ends the directory; slot i holds an entry the iteration is to  *)
(* return                                                                *)
EndSlot(f, d, i) == DirSlot(f, d, i)[0] = 0
Listed(f, d, i) ==
    /\ DirSlot(f, d, i)[0] \notin {0, DDEM}
    /\ ~BitSet(DirSlot(f, d, i)[DIR_Attr], 8)
(* the slots at or after k where an iteration stops *)
Stops(f, d, k) == {i \in k..(NSlots(f, d) - 1) : EndSlot(f, d, i) \/ Listed(f, d, i)}

(* the name of an entry as text: the base up to the first blank, then a  *)
(* dot and the extension up to the first blank when it has one           *)
RECURSIVE UpToBlank(_, _, _)
UpToBlank(e, a, b) ==
    IF a > b \/ e[a] = 32 THEN <<>> ELSE <<e[a]>> \o UpToBlank(e, a + 1, b)
EntryText(e) ==
    UpToBlank(e, 0, 7) \o (IF e[8] = 32 THEN <<>> ELSE <<46>> \o UpToBlank(e, 8, 10))

(* C29: on an opened directory every readdir call, no transfer of which  *)
(* fails, returns the first entry at or after the iterator index that is *)
(* neither deleted nor a volume label and sets the index just past it;    *)
(* when an end slot comes first, or no slot of the directory remains, it  *)
(* returns OK with an empty name and leaves the index where no entry      *)
(* follows; a rewind and an opendir set the index to 0.  Hence each such  *)
(* entry is returned exactly once, in slot order, and the end is reported *)
(* from then on.                                                          *)
C29_Iteration ==
    [][ (/\ last'.op \in {"f_readdir", "f_opendir"} /\ step' = step + 1
         /\ ~last'.failed /\ fs.fs_type # 0 /\ FatFs = 1
         /\ (last'.op = "f_readdir" => dp.fs # 0))
        => /\ last'.res = FR_OK
           /\ IF last'.op = "f_opendir" \/ last'.arg = 1 THEN dp'.index = 0
              ELSE IF \/ Stops(fs, dev, dp.index) = {}
                      \/ EndSlot(fs, dev, Lowest(Stops(fs, dev, dp.index)))
              THEN /\ last'.data = <<>>
                   /\ dp'.index >= dp.index
                   /\ \/ dp'.index >= NSlots(fs', dev')
                      \/ EndSlot(fs', dev', dp'.index)
              ELSE /\ last'.data
                        = EntryText(DirSlot(fs, dev, Lowest(Stops(fs, dev, dp.index))))
                   /\ last'.data # <<>>
                   /\ dp'.index = Lowest(Stops(fs, dev, dp.index)) + 1 ]_vars

(* ------------------------------------------------------------------ *)
(* Two handles                                                          *)
(* ------------------------------------------------------------------ *)
(* one recorded call o applied to the file object fp *)
Apply(K, fp, o) ==
    IF o.op = "f_open"
    THEN The({ [K |-> R.K, fp |-> R.fp, data |-> <<>>] :
               R \in {f_open(K, 1, fp, o.path, o.arg)} })
    ELSE IF o.op = "f_read"
    THEN The({ [K |-> R.K, fp |-> R.fp, data |-> R.data] :
               R \in {f_read(K, fp, o.arg)} })
    ELSE IF o.op = "f_write"
    THEN The({ [K |-> R.K, fp |-> R.fp, data |-> <<>>] :
               R \in {f_write(K, fp, o.arg, o.seed)} })
    ELSE IF o.op = "f_lseek"
    THEN The({ [K |-> R.K, fp |-> R.fp, data |-> <<>>] :
               R \in {f_lseek(K, fp, o.arg)} })
    ELSE IF o.op = "f_sync"
    THEN The({ [K |-> R.K, fp |-> R.fp, data |-> <<>>] : R \in {f_sync(K, fp)} })
    ELSE The({ [K |-> R.K, fp |-> R.fp, data |-> <<>>] : R \in {f_close(K, fp)} })

(* the calls ops[i..] made one after the other, nothing in between: the  *)
(* volume, the file object and the bytes read by the last call           *)
RECURSIVE Replay(_, _, _, _)
Replay(K, fp, ops, i) ==
    IF i > Len(ops) THEN [K |-> K, fp |-> fp, data |-> <<>>]
    ELSE The({ IF i = Len(ops) THEN R
               ELSE Replay(MkK(R.K.fs, R.K.dev, 0 - 1, R.K.Stat), R.fp, ops, i + 1) :
               R \in {Apply(K, fp, ops[i])} })

(* the calls of one handle run alone on the freshly mounted card *)
Alone(card, ops) ==
    Replay(f_mount(MkK(NullFs, card, 0 - 1, STA_NOINIT), 0, 0, TRUE, 0, 1, TRUE).K,
           NullFil, ops, 1)

(* size and bytes of the file named by path, as the volume shows them;   *)
(* a byte beyond the chain of the file is shown as -1                    *)
FileShown(f, d, path) ==
    IF EntriesNamed(f, d, FoldedName(path)) = {} THEN [size |-> 0 - 1, bytes |-> <<>>]
    ELSE The({ The({ [size |-> LD_DWORD(e, DIR_FileSize),
                      bytes |-> [k \in 1..LD_DWORD(e, DIR_FileSize) |->
                          IF ((k - 1) \div ClusterBytes(f)) + 1 > Len(ch) THEN 0 - 1
                          ELSE ViewSect(f, d,
                                   clst2sect(f, ch[((k - 1) \div ClusterBytes(f)) + 1])
                                   + (((k - 1) % ClusterBytes(f)) \div SS))[(k - 1) % SS]]] :
                     ch \in {ChainView(f, d, LD_WORD(e, DIR_FstClusLO),
                                       ClustersFor(f, LD_DWORD(e, DIR_FileSize)))} }) :
               e \in {Slot(f, d, Lowest(EntriesNamed(f, d, FoldedName(path))))} })

(* the file each handle works on, and: no handle has opened another file *)
OwnPath(h) == IF h = 1 THEN PathTest ELSE PathB
OwnFiles ==
    \A g \in DOMAIN mon :
        \A i \in 1..Len(mon[g].ops) :
            mon[g].ops[i].op = "f_open" => mon[g].ops[i].path = OwnPath(g)

(* C30: with two handles working on different files of one volume, their *)
(* calls interleaved in any order, the bytes a read returns and the size  *)
(* and contents of a file after its handle is closed are those obtained   *)
(* when the calls of that handle run alone.                               *)
C30_Interleaving ==
    \A h \in DOMAIN fil :
        (mon[h].rec /\ OwnFiles /\ last.h = h /\ last.op \in {"f_read", "f_close"})
        => \E S \in {Alone(Fat16Card, mon[h].ops)} :
              /\ last.op = "f_read" => last.data = S.data
              /\ last.op = "f_close"
                 => FileShown(fs, dev, OwnPath(h)) = FileShown(S.K.fs, S.K.dev, OwnPath(h))

(* the clusters of the chain that starts at cluster c, and the start     *)
(* cluster of the root entry of slot i, as the volume shows them         *)
ChainSet(f, d, c) ==
    The({ {ch[k] : k \in 1..Len(ch)} : ch \in {ChainView(f, d, c, MaxOpsPair + 1)} })
SlotClust(f, d, i) ==
    (LD_WORD(Slot(f, d, i), DIR_FstClusHI) * 65536) + LD_WORD(Slot(f, d, i), DIR_FstClusLO)

(* no cluster is in the chains of two files of the root, nor in the      *)
(* chains of two handles open on different files                         *)
NoSharedCluster(f, d, hs) ==
    /\ \A i, j \in 0..(f.n_rootdir - 1) :
          (i < j /\ LiveEntry(f, d, i) /\ LiveEntry(f, d, j))
          => ChainSet(f, d, SlotClust(f, d, i)) \cap ChainSet(f, d, SlotClust(f, d, j))
             = {}
    /\ \A g, h \in DOMAIN hs :
          (/\ g < h /\ hs[g].fs # 0 /\ hs[h].fs # 0
           /\ <<hs[g].dir_sect, hs[g].dir_ptr>> # <<hs[h].dir_sect, hs[h].dir_ptr>>)
          => ChainSet(f, d, hs[g].sclust) \cap ChainSet(f, d, hs[h].sclust) = {}

MaxOpsSched == 4

TaskConfig(func, priority, type, period_ms, delay_ms) ==
    [func |-> func, priority |-> priority, type |-> type, period_ms |-> period_ms,
     delay_ms |-> delay_ms]

SchedConfigs ==
    {<<>>,
     <<TaskConfig("NULL", TASK_PRIORITY_NORMAL, TASK_TYPE_ONESHOT, 0, 0)>>,
     <<TaskConfig("idle", TASK_PRIORITY_NORMAL, TASK_TYPE_PERIODIC, 2, 0)>>,
     <<TaskConfig("idle", TASK_PRIORITY_HIGH, TASK_TYPE_ONESHOT, 0, 0)>>,
     <<TaskConfig("quit", TASK_PRIORITY_NORMAL, TASK_TYPE_ONESHOT, 0, 0)>>,
     <<TaskConfig("quit", TASK_PRIORITY_HIGH, TASK_TYPE_PERIODIC, 2, 0)>>,
     <<TaskConfig("pause", TASK_PRIORITY_NORMAL, TASK_TYPE_PERIODIC, 2, 0)>>,
     <<TaskConfig("spawn", TASK_PRIORITY_IDLE, TASK_TYPE_PERIODIC, 2, 1)>>,
     <<TaskConfig("respawn", TASK_PRIORITY_HIGH, TASK_TYPE_PERIODIC, 2, 0)>>}

SchedArgs == {0, 1, SCHEDULER_MAX_TASKS}

SchedCall(op, arg, ret) == [NoSchedCall EXCEPT !.op = op, !.arg = arg, !.ret = ret]

SchedStep ==
    /\ step < MaxOpsSched
    /\ step' = step + 1
    /\ UNCHANGED <<fs, FatFs, Fsid, Stat, dev, fault, fil, dp, last, mon>>

TaskCreate ==
    /\ SchedStep
    /\ \E config \in SchedConfigs :
          \E R \in {scheduler_task_create(sched, config)} :
              /\ sched' = R.S
              /\ slog' = SchedCall("scheduler_task_create", 0, R.ret)

TaskDelete ==
    /\ SchedStep
    /\ \E id \in SchedArgs :
          \E R \in {scheduler_task_delete(sched, id)} :
              /\ sched' = R.S
              /\ slog' = SchedCall("scheduler_task_delete", id, R.ret)

TaskSuspend ==
    /\ SchedStep
    /\ \E id \in SchedArgs :
          \E R \in {scheduler_task_suspend(sched, id)} :
              /\ sched' = R.S
              /\ slog' = SchedCall("scheduler_task_suspend", id, R.ret)

TaskResume ==
    /\ SchedStep
    /\ \E id \in SchedArgs :
          \E R \in {scheduler_task_resume(sched, id)} :
              /\ sched' = R.S
              /\ slog' = SchedCall("scheduler_task_resume", id, R.ret)

TimerCreate ==
    /\ SchedStep
    /\ \E t \in {<<"NULL", 0>>, <<"kill0", 0>>, <<"wake0", 1>>} :
          \E R \in {scheduler_timer_create(sched, 1, t[1], t[2])} :
              /\ sched' = R.S
              /\ slog' = SchedCall("scheduler_timer_create", 0, R.ret)

TimerStart ==
    /\ SchedStep
    /\ \E id \in {0, SCHEDULER_MAX_TIMERS} :
          \E R \in {scheduler_timer_start(sched, id)} :
              /\ sched' = R.S
              /\ slog' = SchedCall("scheduler_timer_start", id, R.ret)

Tick ==
    /\ SchedStep
    /\ sched' = scheduler_tick(sched)
    /\ slog' = SchedCall("scheduler_tick", 0, 0)

Run ==
    /\ SchedStep
    /\ \E adv \in {0, 1} :
          \E R \in {scheduler_run(sched, adv)} :
              /\ sched' = R.S
              /\ slog' = [op |-> "scheduler_run", arg |-> adv, ret |-> 0,
                          sel |-> R.sel, at |-> R.at, now |-> R.now]

(* the state after a set-up that created and started a periodic timer *)
(* whose callback deletes task 0                                        *)
SchedArmed ==
    scheduler_timer_start(scheduler_timer_create(SchedInit, 1, "kill0", 1).S, 0).S

InitSched ==
    /\ fs = NullFs
    /\ FatFs = 0
    /\ Fsid = 0
    /\ Stat = STA_NOINIT
    /\ dev = SmallCard
    /\ fault = 0 - 1
    /\ fil = [h \in {1} |-> NullFil]
    /\ dp = NullDir
    /\ last = NoCall
    /\ mon = [h \in {1} |-> MonIdle]
    /\ step = 0
    /\ sched \in {SchedInit, SchedArmed}
    /\ slog = NoSchedCall
NextSched ==
    \/ TaskCreate
    \/ TaskDelete
    \/ TaskSuspend
    \/ TaskResume
    \/ TimerCreate
    \/ TimerStart
    \/ Tick
    \/ Run
SpecSched == InitSched /\ [][NextSched]_vars

(* the READY tasks of the list tl whose next_run tick is reached at now, *)
(* and the one of a set D of them that is to run: highest priority,      *)
(* lowest id among equals                                                *)
DueTasks(tl, now) ==
    {i \in TaskIds : tl[i].state = TASK_STATE_READY /\ now - tl[i].next_run_tick >= 0}
FirstByPriority(tl, D) ==
    CHOOSE i \in D :
        \A j \in D : \/ tl[i].priority > tl[j].priority
                     \/ tl[i].priority = tl[j].priority /\ i <= j

(* ------------------------------------------------------------------ *)
(* C31: each scheduler_run call runs at most one task: among the READY *)
(* tasks whose next_run tick has been reached it runs the one with the *)
(* highest priority (the lowest task id among equals) and runs none     *)
(* when no READY task is due; a periodic task that ran is READY again   *)
(* with next_run = tick at selection + period, and a one-shot task that *)
(* ran is removed.                                                       *)
(* ------------------------------------------------------------------ *)
C31_RunOneTask ==
    [][ (slog'.op = "scheduler_run" /\ step' = step + 1)
        => /\ DueTasks(slog'.at, slog'.now) = {} => slog'.sel = INVALID_ID
           /\ DueTasks(slog'.at, slog'.now) # {}
              => slog'.sel = FirstByPriority(slog'.at, DueTasks(slog'.at, slog'.now))
           /\ \A i \in TaskIds :
                 i # slog'.sel
                 => sched'.task_list[i].stats.run_count
                    <= slog'.at[i].stats.run_count
           /\ slog'.sel # INVALID_ID
              => /\ sched'.task_list[slog'.sel].stats.run_count >= 1
                 /\ slog'.at[slog'.sel].type = TASK_TYPE_PERIODIC
                    => /\ sched'.task_list[slog'.sel].state = TASK_STATE_READY
                       /\ sched'.task_list[slog'.sel].next_run_tick
                          = slog'.now + slog'.at[slog'.sel].period_ms
                 /\ slog'.at[slog'.sel].type = TASK_TYPE_ONESHOT
                    => sched'.task_list[slog'.sel].state = TASK_STATE_INVALID ]_vars

(* ------------------------------------------------------------------ *)
(* C40: after any sequence of task create, delete, suspend, resume and  *)
(* scheduler_run calls, also those a task function makes while it runs, *)
(* task_count is the number of task slots whose state is not INVALID,   *)
(* and a task that deleted or suspended itself during its run is not    *)
(* READY when scheduler_run returns.                                     *)
(* ------------------------------------------------------------------ *)
C40_TaskCount ==
    /\ sched.task_count
       = Cardinality({i \in TaskIds : sched.task_list[i].state # TASK_STATE_INVALID})
    /\ (/\ slog.op = "scheduler_run" /\ slog.sel # INVALID_ID
        /\ slog.at[slog.sel].func \in {"quit", "pause"})
       => sched.task_list[slog.sel].state # TASK_STATE_READY

(* ------------------------------------------------------------------ *)
(* Specification: a file of 3000 bytes with recognisable contents on    *)
(* the 16-bit-FAT volume (4 sectors per cluster), its chain 2 -> 4,     *)
(* cluster 3 belonging to another chain; the file is opened for reading *)
(* and read and positioned in any order, no card fault                  *)
(* ------------------------------------------------------------------ *)
DataSect(s) == [x \in 0..(SS - 1) |-> (x + (7 * s)) % 251]

DataCard ==
    [s \in {0, 1, 17, 33} \cup 34..45 |->
        IF s = 0 THEN Fat16Card[0]
        ELSE IF s \in {1, 17}
        THEN ST_WORD(ST_WORD(ST_WORD(EmptyFat16, 4, 4), 6, 65535), 8, 65535)
        ELSE IF s = 33
        THEN WithDirEntry(ZeroSect, 0, MkSfn(SubSeq(PathTest, 3, Len(PathTest))),
                          3000, 2)
        ELSE DataSect(s)]

MaxOpsData == 6

DataP ==
    [cards |-> {DataCard}, faults |-> {0 - 1}, handles |-> {1}, paths |-> {PathTest},
     modes |-> {FA_READ}, mopts |-> {1}, sdok |-> {TRUE}, rd |-> {100, 600},
     wr |-> {}, of |-> {0, 100, 2048, 2100, 3000, 5000}, seeds |-> {0},
     maxops |-> MaxOpsData, remount |-> FALSE, live |-> TRUE]

InitData == InitWith(DataP)
NextData ==
    \/ Mount(DataP)
    \/ Open(DataP)
    \/ Read(DataP)
    \/ Seek(DataP)
    \/ Close(DataP)
SpecData == InitData /\ [][NextData]_vars

(* the chain of the file of handle fp as the volume shows it, and the   *)
(* byte of the file at offset o                                          *)
FileChain(f, d, fp) == ChainView(f, d, fp.sclust, ClustersFor(f, fp.obj_size))
FileByte(f, d, fp, o) ==
    The({ IF (o \div ClusterBytes(f)) + 1 > Len(ch) THEN 0 - 1
          ELSE ViewSect(f, d, clst2sect(f, ch[(o \div ClusterBytes(f)) + 1])
                              + ((o % ClusterBytes(f)) \div SS))[o % SS] :
          ch \in {FileChain(f, d, fp)} })

(* ------------------------------------------------------------------ *)
(* C32: for any fptr in [0, size], sector-aligned or not, and any       *)
(* count, a read call returning OK delivers min(count, size - fptr)     *)
(* bytes equal to the file's bytes at offsets [fptr, fptr + that        *)
(* number) and advances fptr by that number; the direct bulk device     *)
(* read into the destination buffer is used only when fptr is           *)
(* sector-aligned.                                                       *)
(* ------------------------------------------------------------------ *)
C32_ReadAnywhere ==
    (/\ last.op = "f_read" /\ last.res = FR_OK
     /\ last.pre.fptr <= last.pre.obj_size)
    => /\ last.cnt = MIN(last.arg, last.pre.obj_size - last.pre.fptr)
       /\ Len(last.data) = last.cnt
       /\ \A j \in 1..Len(last.data) :
             last.data[j] = FileByte(fs, dev, last.pre, last.pre.fptr + j - 1)
       /\ fil[last.h].fptr = last.pre.fptr + last.cnt
       /\ ~last.skew

(* ------------------------------------------------------------------ *)
(* C34: after a seek to an offset p <= size returns OK, fptr = p and    *)
(* the current cluster of the handle is the cluster of the chain that   *)
(* holds byte p - 1 (the start cluster when p = 0), after any sequence  *)
(* of reads and seeks, and a read that follows delivers the file's      *)
(* bytes from offset p; a seek whose target lies in the cluster of byte *)
(* fptr - 1 or a later one reaches its cluster by FAT links from the    *)
(* current cluster.                                                      *)
(* ------------------------------------------------------------------ *)
C34_SeekLands ==
    [][ \A h \in DOMAIN fil :
          /\ (/\ last'.op = "f_lseek" /\ step' = step + 1 /\ last'.h = h
              /\ last'.res = FR_OK /\ last'.arg <= fil[h].obj_size)
             => /\ fil'[h].fptr = last'.arg
                /\ \A ch \in {FileChain(fs', dev', fil'[h])} :
                      fil'[h].clust
                      = IF last'.arg = 0 THEN fil[h].sclust
                        ELSE ch[((last'.arg - 1) \div ClusterBytes(fs)) + 1]
                /\ (/\ fil[h].fptr > 0 /\ last'.arg > 0
                    /\ (last'.arg - 1) \div ClusterBytes(fs)
                       >= (fil[h].fptr - 1) \div ClusterBytes(fs))
                   => \A k \in {((last'.arg - 1) \div ClusterBytes(fs))
                                - ((fil[h].fptr - 1) \div ClusterBytes(fs))} :
                         \A w \in {ChainView(fs, dev, fil[h].clust, k + 1)} :
                             Len(w) = k + 1 /\ fil'[h].clust = w[k + 1]
          /\ (/\ last'.op = "f_read" /\ step' = step + 1 /\ last'.h = h
              /\ last'.res = FR_OK
              /\ last.op = "f_lseek" /\ last.h = h /\ last.res = FR_OK
              /\ last.arg <= fil[h].obj_size)
             => /\ last'.cnt = MIN(last'.arg, fil[h].obj_size - last.arg)
                /\ Len(last'.data) = last'.cnt
                /\ \A j \in 1..Len(last'.data) :
                      last'.data[j] = FileByte(fs', dev', fil[h], last.arg + j - 1) ]_vars

(* ------------------------------------------------------------------ *)
(* Specification: the same file opened for reading and writing without *)
(* creation; it is written, read, positioned and synchronised in any   *)
(* order, no card fault                                                 *)
(* ------------------------------------------------------------------ *)
MaxOpsRw == 5

RwP ==
    [cards |-> {DataCard}, faults |-> {0 - 1}, handles |-> {1}, paths |-> {PathTest},
     modes |-> {FA_READ + FA_WRITE}, mopts |-> {1}, sdok |-> {TRUE},
     rd |-> {100, 600}, wr |-> {100, 600}, of |-> {0, 100, 512}, seeds |-> {1},
     maxops |-> MaxOpsRw, remount |-> FALSE, live |-> TRUE]

InitRw == InitWith(RwP)
NextRw ==
    \/ Mount(RwP)
    \/ Open(RwP)
    \/ Read(RwP)
    \/ Write(RwP)
    \/ Seek(RwP)
    \/ Sync(RwP)
SpecRw == InitRw /\ [][NextRw]_vars

(* the byte at offset o of the file whose chain is ch, as a read through *)
(* the window would find it                                               *)
ViewByte(f, d, ch, o) ==
    IF (o \div ClusterBytes(f)) + 1 > Len(ch) THEN 0 - 1
    ELSE ViewSect(f, d, clst2sect(f, ch[(o \div ClusterBytes(f)) + 1])
                        + ((o % ClusterBytes(f)) \div SS))[o % SS]

(* ------------------------------------------------------------------ *)
(* C33: for any fptr within the first cluster of the file, sector-      *)
(* aligned or not, a write call of count bytes returning OK stores the  *)
(* bytes at file offsets [fptr, fptr + count) and leaves every other    *)
(* byte of the file as it was, as a later read through the handle finds *)
(* them, and a sync returning OK leaves on the card the bytes the       *)
(* handle showed; whole sectors are written directly to the card only   *)
(* when fptr is sector-aligned.                                          *)
(* ------------------------------------------------------------------ *)
C33_WriteAnywhere ==
    [][ \A h \in DOMAIN fil :
          /\ (/\ last'.op = "f_write" /\ step' = step + 1 /\ last'.h = h
              /\ last'.res = FR_OK /\ fil[h].fptr < ClusterBytes(fs))
             => /\ ~last'.skew
                /\ \A old \in {FileChain(fs, dev, fil[h])},
                      new \in {FileChain(fs', dev', fil'[h])} :
                      \A o \in 0..(fil'[h].obj_size - 1) :
                          ViewByte(fs', dev', new, o)
                          = IF o >= fil[h].fptr /\ o < fil[h].fptr + last'.arg
                            THEN WBuf(last'.seed, o - fil[h].fptr)
                            ELSE ViewByte(fs, dev, old, o)
          /\ (/\ last'.op = "f_sync" /\ step' = step + 1 /\ last'.h = h
              /\ last'.res = FR_OK)
             => \A old \in {FileChain(fs, dev, fil[h])},
                   new \in {ChainOnCard(fs', dev', fil'[h].sclust,
                                        ClustersFor(fs', fil'[h].obj_size))} :
                   \A o \in 0..(fil'[h].obj_size - 1) :
                       FileByteOnCard(fs', dev', new, o) = ViewByte(fs, dev, old, o) ]_vars

(* ------------------------------------------------------------------ *)
(* C36: after any sequence of reads, writes, seeks and syncs, a clean   *)
(* window that holds a valid sector number equals the card's content of *)
(* that sector, no direct transfer of whole sectors targets the sector  *)
(* the window holds dirty, and a byte read through a handle is the byte *)
(* last written at that offset.                                          *)
(* ------------------------------------------------------------------ *)
C36_WindowCoherent ==
    /\ (fs.fs_type # 0 /\ fs.wflag = 0 /\ fs.winsect # INVALID_SECT)
       => fs.win = DevSect(dev, fs.winsect)
    /\ ~last.clash
    /\ \A h \in DOMAIN fil :
          (last.op = "f_read" /\ last.h = h /\ last.res = FR_OK)
          => \A j \in 1..Len(last.data) :
                \A b \in {WrittenByte(mon[h].writes, last.pre.fptr + j - 1,
                                      Len(mon[h].writes))} :
                    b >= 0 => last.data[j] = b

(* ------------------------------------------------------------------ *)
(* C37: whenever the size or the start cluster of an open handle        *)
(* differs from the size or start cluster of its directory entry on the *)
(* card, the handle is marked modified, so that the next sync or close  *)
(* writes them back; this holds after every write call, also one that   *)
(* allocated a cluster or transferred bytes and then failed.            *)
(* ------------------------------------------------------------------ *)
C37_ModifiedIsMarked ==
    \A h \in DOMAIN fil :
        (/\ fil[h].fs # 0
         /\ \/ DirSizeOnCard(dev, fil[h].dir_sect, fil[h].dir_ptr) # fil[h].obj_size
            \/ DirClustOnCard(dev, fil[h].dir_sect, fil[h].dir_ptr) # fil[h].sclust)
        => BitSet(fil[h].flag, FA_MODIFIED)

(* ------------------------------------------------------------------ *)
(* C39: a handle opened under one mount of a volume is not usable after *)
(* the volume is unmounted or mounted again: read, write, seek and sync *)
(* on an open handle whose volume is not mounted, or whose recorded     *)
(* mount id differs from the mount id of the volume, are rejected       *)
(* without any card access.                                              *)
(* ------------------------------------------------------------------ *)
C39_StaleHandleRejected ==
    [][ \A h \in DOMAIN fil :
          (/\ last'.op \in {"f_read", "f_write", "f_lseek", "f_sync"}
           /\ last'.h = h /\ step' = step + 1
           /\ fil[h].fs # 0
           /\ (fs.fs_type = 0 \/ fil[h].id # fs.id))
          => /\ last'.res # FR_OK
             /\ last'.n = 0
             /\ dev' = dev ]_vars

(* ------------------------------------------------------------------ *)
(* Specification: files are created and written on the small volume    *)
(* when it is full, or when just one cluster is free and the others     *)
(* belong to other files; no card fault                                  *)
(* ------------------------------------------------------------------ *)
(* the first sector of a 12-bit FAT whose entry of cluster c is v[c],   *)
(* 0 for the clusters outside the domain of v                            *)
Fat12Image(v) ==
    [i \in 0..(SS - 1) |->
        The({ IF i % 3 = 0 THEN M8(e[1])
              ELSE IF i % 3 = 1 THEN (e[1] \div 256) + ((e[2] % 16) * 16)
              ELSE e[2] \div 16 :
              e \in {<<IF 2 * (i \div 3) \in DOMAIN v THEN v[2 * (i \div 3)] ELSE 0,
                       IF (2 * (i \div 3)) + 1 \in DOMAIN v
                       THEN v[(2 * (i \div 3)) + 1] ELSE 0>>} })]

(* the small volume with every cluster but those of the set free taken *)
(* by one-cluster files                                                  *)
UsedCard(free) ==
    [s \in {0, 1} |->
        IF s = 0 THEN SmallCard[0]
        ELSE Fat12Image([c \in 0..(SmallClusters + 1) |->
                            IF c = 0 THEN 4088 ELSE IF c \in free THEN 0 ELSE 4095])]

MaxOpsFull == 6

FullP ==
    [cards |-> {UsedCard({}), UsedCard({3})}, faults |-> {0 - 1}, handles |-> {1},
     paths |-> {PathA, PathB}, modes |-> {FA_READ + FA_WRITE + FA_CREATE_ALWAYS},
     mopts |-> {1}, sdok |-> {TRUE}, rd |-> {100}, wr |-> {0, 100},
     of |-> {0}, seeds |-> {1}, maxops |-> MaxOpsFull, remount |-> FALSE,
     live |-> FALSE]

InitFull == InitWith(FullP)
NextFull ==
    \/ Mount(FullP)
    \/ Open(FullP)
    \/ Close(FullP)
    \/ Read(FullP)
    \/ Write(FullP)
    \/ Seek(FullP)
SpecFull == InitFull /\ [][NextFull]_vars

(* the volume shows no free cluster *)
VolumeFull(f, d) == \A c \in 2..(f.n_fatent - 1) : FatView(f, d, c) # 0

(* ------------------------------------------------------------------ *)
(* C35: the scan for a free cluster of a write ends for every value of  *)
(* the last-allocated-cluster hint: on a volume with no free cluster a  *)
(* write that needs a new cluster returns DENIED.                       *)
(* ------------------------------------------------------------------ *)
C35_FullVolumeDenied ==
    [][ \A h \in DOMAIN fil :
          (/\ last'.op = "f_write" /\ step' = step + 1 /\ last'.h = h
           /\ last'.arg > 0
           /\ fs.fs_type # 0 /\ VolumeFull(fs, dev)
           /\ fil[h].fs # 0 /\ fil[h].err = 0 /\ BitSet(fil[h].flag, FA_WRITE)
           /\ fil[h].fptr = 0 /\ fil[h].sclust = 0)
          => (~last'.hung /\ last'.res = FR_DENIED) ]_vars

====
